---- MODULE Spec2Model ----
(***************************************************************************)
(* Bloom data orchestrator of nimben/bloom (blossom-watch front end):      *)
(* BloomDataService (bloomDataService.js), DataCache and                   *)
(* BackgroundRefreshService (dataCache.js), the NDVI provider (nasaApi.js),*)
(* the phenology catalog (phenologyApi.js), the classifier                 *)
(* (bloomClassification.js) and the image service (imageApi.js).           *)
(*                                                                         *)
(* Units.  Latitude and longitude are integers in 1e-4 degree (10.0001     *)
(* degrees is 100001).  NDVI, confidence and thresholds are integers in    *)
(* thousandths (0.85 is 850).  Time is counted in days: Date.now() is the  *)
(* variable now, and the cache durations, which the source writes in       *)
(* milliseconds, are written in days.  Floating point rounding error of    *)
(* the JavaScript arithmetic is not modelled.  The ISO date strings that   *)
(* the observations and results carry (date, timestamp, lastUpdated) and   *)
(* the presentation fields (colours, icons, messages) are left out of the  *)
(* data; fetchId, the serial number of the provider invocation that made   *)
(* an observation, stands for the identity of the observation object.      *)
(***************************************************************************)
EXTENDS Integers, Sequences, FiniteSets, TLC

VARIABLES
  now,            \* Date.now(), in days
  month,          \* new Date().getMonth() + 1
  storageOk,      \* FALSE: every localStorage read and write throws
  storage,        \* the localStorage item 'blossom-watch-cache'
  cache,          \* DataCache.cache, a Map from key to entry
  requestQueue,   \* BloomDataService.requestQueue, a Map from key to promise
  isInitialized,  \* BloomDataService.isInitialized
  cleanupTimers,  \* number of hourly setInterval timers of scheduleCacheCleanup
  refreshInterval,\* BackgroundRefreshService.refreshInterval is set
  refreshQueue,   \* BackgroundRefreshService.refreshQueue
  nextCall,       \* number of getBloomData invocations so far
  call,           \* the getBloomData invocations, by order of invocation
  comp,           \* the fetchBloomData computations (promises), by creator
  batch,          \* the getBatchBloomData invocation
  fetchCount,     \* number of fetchNDVIData invocations so far
  ticks,          \* number of clock advances so far
  input,          \* the arguments of the function under test
  output,         \* what the function under test returned
  REGIONAL_FLOWER_MAPPINGS, \* the keyword table of imageApi.js
  isRefreshing, \* BackgroundRefreshService.isRefreshing
  refreshRun  \* the processRefreshQueue runs so far and the keys of the current one

vars == <<now, month, storageOk, storage, cache, requestQueue, isInitialized,
          cleanupTimers, refreshInterval, refreshQueue, nextCall, call, comp,
          batch, fetchCount, ticks, input,
                 output,
          REGIONAL_FLOWER_MAPPINGS,
          isRefreshing,
          refreshRun>>

(***************************************************************************)
(* Bounds of the model.                                                    *)
(***************************************************************************)
MaxCalls == 2
MaxPending == 2
MaxTicks == 1
MaxBatch == 2
MaxHistory == 3
MaxRuns == 2

Null == [null |-> TRUE]

Max(a, b) == IF a >= b THEN a ELSE b
Min(a, b) == IF a <= b THEN a ELSE b
Abs(a) == IF a < 0 THEN 0 - a ELSE a

\* Math.round for a quotient n / d with d > 0: nearest integer, halves up.
MathRound(n, d) == (2 * n + d) \div (2 * d)

(***************************************************************************)
(* dataCache.js: DataCache                                                 *)
(***************************************************************************)
CACHE_DURATION == [NDVI |-> 7, PHENOLOGY |-> 14, IMAGES |-> 30, LOCATIONS |-> 90]

\* Math.round(latitude * 1000) / 1000, in thousandths of a degree
roundedCoordinate(x) == MathRound(x, 10)

generateKey(latitude, longitude, dataType) ==
  <<dataType, roundedCoordinate(latitude), roundedCoordinate(longitude)>>

\* The lookup misses every type: each entry lives for the NDVI duration
cacheDurationOf_alwaysNDVI(dataType) == CACHE_DURATION.NDVI

\* CACHE_DURATION[dataType] || CACHE_DURATION.NDVI
cacheDurationOf(dataType) ==
  IF dataType \in DOMAIN CACHE_DURATION THEN CACHE_DURATION[dataType]
  ELSE CACHE_DURATION.NDVI

\* An entry exactly as old as its duration still counts as valid
isCacheValid_inclusive(c, key, dataType, t) ==
  /\ key \in DOMAIN c
  /\ (t - c[key].timestamp) <= cacheDurationOf(dataType)

isCacheValid(c, key, dataType, t) ==
  /\ key \in DOMAIN c
  /\ (t - c[key].timestamp) < cacheDurationOf(dataType)

mapDelete(c, key) == [k \in DOMAIN c \ {key} |-> c[k]]

mapSet(c, key, value) ==
  [k \in DOMAIN c \cup {key} |-> IF k = key THEN value ELSE c[k]]

\* DataCache.get: the value returned
cacheGetData(c, key, dataType, t) ==
  IF isCacheValid(c, key, dataType, t) THEN c[key].data ELSE Null

\* DataCache.get: the Map afterwards
cacheGetMap(c, key, dataType, t) ==
  IF isCacheValid(c, key, dataType, t)
  THEN [c EXCEPT ![key].hits = @ + 1, ![key].lastAccessed = t]
  ELSE mapDelete(c, key)

\* DataCache.set: the Map afterwards
cacheSet(c, key, data, dataType, t) ==
  mapSet(c, key, [data |-> data, timestamp |-> t, dataType |-> dataType,
                  hits |-> 0, lastAccessed |-> t])

\* DataCache.cleanup: the Map afterwards
cleanup(c, t) ==
  LET expired == {k \in DOMAIN c :
                    (t - c[k].timestamp) > cacheDurationOf(c[k].dataType)}
  IN [k \in DOMAIN c \ expired |-> c[k]]

\* setItem is called outside a try block
saveToStorageThrows_uncaught(ok) == ~ok

\* DataCache.saveToStorage lets its exception escape: never, it is caught.
saveToStorageThrows(ok) == FALSE

\* DataCache.saveToStorage: the stored item afterwards
saveToStorage(c, st, ok) == IF ok THEN c ELSE st

\* DataCache.loadFromStorage: the Map after construction
loadFromStorage(st, ok) ==
  IF ok /\ st # Null THEN st ELSE [k \in {} |-> Null]

(***************************************************************************)
(* nasaApi.js                                                              *)
(***************************************************************************)
Months == 1 .. 12

\* The months a session is started in
StartMonths == {1}

\* The southern table lags the northern one by three months only
getSeasonForLocation_southShifted(lat, m) ==
  LET isNorthernHemisphere == lat > 0
      phase == CASE m \in {12, 3, 6, 9} -> "Early"
                 [] m \in {1, 4, 7, 10} -> "Mid"
                 [] OTHER -> "Late"
      season == IF isNorthernHemisphere
                THEN CASE m \in {12, 1, 2} -> "Winter"
                       [] m \in {3, 4, 5} -> "Spring"
                       [] m \in {6, 7, 8} -> "Summer"
                       [] OTHER -> "Autumn"
                ELSE CASE m \in {12, 1, 2} -> "Autumn"
                       [] m \in {3, 4, 5} -> "Winter"
                       [] m \in {6, 7, 8} -> "Spring"
                       [] OTHER -> "Summer"
  IN [name |-> season, phase |-> phase]

getSeasonForLocation(lat, m) ==
  LET isNorthernHemisphere == lat > 0
      phase == CASE m \in {12, 3, 6, 9} -> "Early"
                 [] m \in {1, 4, 7, 10} -> "Mid"
                 [] OTHER -> "Late"
      season == IF isNorthernHemisphere
                THEN CASE m \in {12, 1, 2} -> "Winter"
                       [] m \in {3, 4, 5} -> "Spring"
                       [] m \in {6, 7, 8} -> "Summer"
                       [] OTHER -> "Autumn"
                ELSE CASE m \in {12, 1, 2} -> "Summer"
                       [] m \in {3, 4, 5} -> "Autumn"
                       [] m \in {6, 7, 8} -> "Winter"
                       [] OTHER -> "Spring"
  IN [name |-> season, phase |-> phase]

getSeasonalNDVI(season, lat) ==
  LET baseValues ==
        [Winter |-> 200 + (IF lat > 0 THEN 100 ELSE 300),
         Spring |-> 400 + (IF lat > 0 THEN 200 ELSE 100),
         Summer |-> 700 + (IF lat > 0 THEN 100 ELSE -100),
         Autumn |-> 500 + (IF lat > 0 THEN 100 ELSE 200)]
  IN Max(100, Min(900, baseValues[season.name]))

\* mockNDVIFetch: the response for a drawn anomaly and confidence
mockNDVIFetch(lat, lon, m, anomaly, confidence, id) ==
  LET season == getSeasonForLocation(lat, m)
      baseNDVI == getSeasonalNDVI(season, lat)
  IN [latitude |-> lat, longitude |-> lon,
      ndvi |-> Max(0, Min(1000, baseNDVI + anomaly)),
      ndviAnomaly |-> anomaly, confidence |-> confidence,
      source |-> "MODIS", season |-> season.name,
      seasonPhase |-> season.phase, fetchId |-> id]

\* The fallback keeps the lowest confidence of a real observation
generateFallbackNDVI_realConfidence(lat, lon, m, id) ==
  [mockNDVIFetch(lat, lon, m, 0, 850, id) EXCEPT !.source = "Fallback"]

generateFallbackNDVI(lat, lon, m, id) ==
  LET season == getSeasonForLocation(lat, m)
      baseNDVI == getSeasonalNDVI(season, lat)
  IN [latitude |-> lat, longitude |-> lon, ndvi |-> baseNDVI,
      ndviAnomaly |-> 0, confidence |-> 600,
      source |-> "Fallback", season |-> season.name,
      seasonPhase |-> season.phase, fetchId |-> id]

\* What the provider can answer: the mock's random draws, or a failure.
\* (Math.random() - 0.5) * 0.2 lies in [-0.1, 0.1), 0.85 + Math.random() * 0.1
\* in [0.85, 0.95).
ProviderAnswers ==
  {[ok |-> TRUE, anomaly |-> 99, confidence |-> 850],
   [ok |-> FALSE, anomaly |-> 0, confidence |-> 0]}

\* fetchNDVIData: the observation resolved for a provider answer
fetchNDVIData(lat, lon, m, answer, id) ==
  IF answer.ok
  THEN mockNDVIFetch(lat, lon, m, answer.anomaly, answer.confidence, id)
  ELSE generateFallbackNDVI(lat, lon, m, id)

\* date.setMonth(date.getMonth() - i): the month i months before month m
monthsBefore(m, i) == ((m - 1 - i + 24) % 12) + 1

\* fetchNDVITrends in wall-clock month m: one point per month from
\* `months` months ago to now, answers[i] being the provider's answer to the
\* fetch for i months ago. fetchNDVIData receives the date of the point as
\* startDate and endDate and does not read them.
fetchNDVITrends(latitude, longitude, months, m, answers) ==
  [k \in 1 .. months + 1 |->
     LET i == months + 1 - k
         date == monthsBefore(m, i)
         ndviData == fetchNDVIData(latitude, longitude, m, answers[i], k)
     IN [date |-> date, ndvi |-> ndviData.ndvi, season |-> ndviData.season]]

(***************************************************************************)
(* phenologyApi.js                                                         *)
(***************************************************************************)
plant(name, bloomPeriod, ndviBoost) ==
  [name |-> name, bloomPeriod |-> bloomPeriod, ndviBoost |-> ndviBoost]

REGIONAL_PLANTS ==
  [north_temperate |->
     [spring |-> <<plant("Cherry Blossom", "March-May", 150),
                   plant("Magnolia", "March-June", 120),
                   plant("Tulip", "April-May", 80),
                   plant("Daffodil", "March-April", 60)>>,
      summer |-> <<plant("Rose", "June-September", 100),
                   plant("Sunflower", "July-September", 140),
                   plant("Lavender", "June-August", 90),
                   plant("Wildflower Meadow", "May-September", 180)>>,
      autumn |-> <<plant("Chrysanthemum", "September-November", 80),
                   plant("Aster", "August-October", 70),
                   plant("Goldenrod", "August-October", 90),
                   plant("Cosmos", "July-October", 60)>>,
      winter |-> <<plant("Camellia", "December-March", 50),
                   plant("Witch Hazel", "January-March", 40),
                   plant("Snowdrop", "January-March", 30),
                   plant("Winter Jasmine", "December-February", 40)>>],
   south_temperate |->
     [spring |-> <<plant("Banksia", "September-November", 120),
                   plant("Waratah", "October-December", 100),
                   plant("Wattle", "August-November", 140),
                   plant("Protea", "October-February", 110)>>,
      summer |-> <<plant("Jacaranda", "November-February", 160),
                   plant("Eucalyptus Flower", "October-March", 130),
                   plant("Kangaroo Paw", "November-February", 90),
                   plant("Sturt Desert Rose", "December-March", 80)>>,
      autumn |-> <<plant("Autumn Crocus", "March-May", 60),
                   plant("Saffron Crocus", "March-April", 50),
                   plant("Autumn Bellflower", "March-May", 70)>>,
      winter |-> <<plant("Winter Rose", "June-August", 40),
                   plant("Cyclamen", "May-September", 50),
                   plant("Winter Heath", "June-August", 60)>>],
   tropical |->
     [year_round |-> <<plant("Hibiscus", "Year-round", 80),
                       plant("Bougainvillea", "Year-round", 100),
                       plant("Orchid", "Year-round", 60),
                       plant("Bird of Paradise", "Year-round", 70),
                       plant("Frangipani", "Year-round", 90)>>]]

\* String.prototype.toLowerCase on a season name
toLowerCase(season) ==
  CASE season = "Spring" -> "spring"
    [] season = "Summer" -> "summer"
    [] season = "Autumn" -> "autumn"
    [] season = "Winter" -> "winter"
    [] OTHER -> season

\* Latitude 23.5 itself counts as tropical
getPlantRegion_inclusive(latitude) ==
  IF Abs(latitude) <= 235000 THEN "tropical"
  ELSE IF latitude > 0 THEN "north_temperate"
  ELSE "south_temperate"

getPlantRegion(latitude) ==
  IF Abs(latitude) < 235000 THEN "tropical"
  ELSE IF latitude > 0 THEN "north_temperate"
  ELSE "south_temperate"

getCurrentFloweringPlants(latitude, season) ==
  LET region == getPlantRegion(latitude)
      plants == REGIONAL_PLANTS[region]
  IN IF region = "tropical" THEN plants.year_round
     ELSE IF toLowerCase(season) \in DOMAIN plants
          THEN plants[toLowerCase(season)]
          ELSE <<>>

RECURSIVE sumBoost(_)
sumBoost(plants) ==
  IF plants = <<>> THEN 0 ELSE Head(plants).ndviBoost + sumBoost(Tail(plants))

calculateBloomIntensity(plants) ==
  LET total == sumBoost(plants)
      n == Len(plants)
  IN IF total > 120 * n THEN "Peak Bloom"
     ELSE IF total > 80 * n THEN "Active Bloom"
     ELSE IF total > 50 * n THEN "Low Bloom"
     ELSE "Dormant"

seasonAdjective(season) ==
  CASE season = "Spring" -> "awakening"
    [] season = "Summer" -> "vibrant"
    [] season = "Autumn" -> "rich"
    [] season = "Winter" -> "subtle"
    [] OTHER -> "beautiful"

\* Array.prototype.slice(from, to), 0-based, end exclusive
slice(s, from, to) == SubSeq(s, from + 1, Min(to, Len(s)))

names(plants) == [i \in 1 .. Len(plants) |-> plants[i].name]

generatePlantDescription(primary, secondary, season) ==
  IF Len(secondary) > 0
  THEN <<primary.name, "in", seasonAdjective(season), "bloom, accompanied by">>
         \o names(secondary)
  ELSE <<primary.name, "displaying", seasonAdjective(season),
         "seasonal flowering">>

getPlantInformation(latitude, season) ==
  LET plants == getCurrentFloweringPlants(latitude, season)
      primaryPlant == plants[1]
      secondaryPlants == slice(plants, 1, 3)
  IN IF Len(plants) = 0
     THEN [primarySpecies |-> "Mixed Vegetation",
           description |-> <<"Local vegetation in seasonal transition">>,
           bloomIntensity |-> "Low",
           floweringPeriod |-> "Ongoing"]
     ELSE [primarySpecies |-> primaryPlant.name,
           description |->
             generatePlantDescription(primaryPlant, secondaryPlants, season),
           bloomIntensity |-> calculateBloomIntensity(plants),
           floweringPeriod |-> primaryPlant.bloomPeriod,
           ndviContribution |-> primaryPlant.ndviBoost,
           additionalSpecies |-> names(secondaryPlants)]

calculateStartOfSeason(season, latitude) ==
  LET isNorthern == latitude > 0
  IN CASE season = "Spring" -> IF isNorthern THEN "March" ELSE "September"
       [] season = "Summer" -> IF isNorthern THEN "June" ELSE "December"
       [] season = "Autumn" -> IF isNorthern THEN "September" ELSE "March"
       [] season = "Winter" -> IF isNorthern THEN "December" ELSE "June"
       [] OTHER -> "Variable"

calculatePeakBloom(season, latitude, ndvi) ==
  LET isNorthern == latitude > 0
      period ==
        CASE season = "Spring" ->
               IF isNorthern THEN "April-May" ELSE "October-November"
          [] season = "Summer" ->
               IF isNorthern THEN "July-August" ELSE "January-February"
          [] season = "Autumn" ->
               IF isNorthern THEN "September-October" ELSE "March-April"
          [] season = "Winter" ->
               IF isNorthern THEN "January-February" ELSE "July-August"
          [] OTHER -> "Variable"
  IN [period |-> period,
      intensity |-> IF ndvi > 700 THEN "High"
                    ELSE IF ndvi > 500 THEN "Medium" ELSE "Low"]

calculateEndOfSeason(season, latitude) ==
  LET isNorthern == latitude > 0
  IN CASE season = "Spring" -> IF isNorthern THEN "June" ELSE "December"
       [] season = "Summer" -> IF isNorthern THEN "September" ELSE "March"
       [] season = "Autumn" -> IF isNorthern THEN "November" ELSE "May"
       [] season = "Winter" -> IF isNorthern THEN "March" ELSE "September"
       [] OTHER -> "Variable"

getCurrentPhase(season, latitude, m) ==
  LET isNorthern == latitude > 0
  IN IF season = "Spring"
     THEN IF isNorthern THEN (IF m <= 4 THEN "Early" ELSE "Late")
          ELSE (IF m <= 10 THEN "Early" ELSE "Late")
     ELSE IF season = "Summer"
     THEN IF isNorthern THEN (IF m <= 7 THEN "Early" ELSE "Late")
          ELSE (IF m <= 1 THEN "Early" ELSE "Late")
     ELSE "Mid"

calculatePhenologyIndex(ndvi, plants) ==
  LET plantBoost == IF Len(plants) > 0 THEN plants[1].ndviBoost ELSE 0
  IN Min(1000, ndvi + plantBoost)

getPhenologyMetrics(latitude, ndvi, season, m) ==
  LET plants == getCurrentFloweringPlants(latitude, season)
  IN [startOfSeason |-> calculateStartOfSeason(season, latitude),
      peakBloom |-> calculatePeakBloom(season, latitude, ndvi),
      endOfSeason |-> calculateEndOfSeason(season, latitude),
      currentPhase |-> getCurrentPhase(season, latitude, m),
      bloomDuration |->
        IF Len(plants) > 0 THEN plants[1].bloomPeriod ELSE "Variable",
      phenologyIndex |-> calculatePhenologyIndex(ndvi, plants)]

(***************************************************************************)
(* bloomClassification.js                                                  *)
(***************************************************************************)
baseThresholds == [dormant |-> 300, low |-> 500, active |-> 700, peak |-> 800]

\* The Winter adjustment of the active threshold has the wrong sign
seasonalAdjustments_winterActive(season) ==
  IF season = "Winter"
  THEN [dormant |-> 100, low |-> 50, active |-> 50, peak |-> -100]
  ELSE [dormant |-> 0, low |-> 0, active |-> 0, peak |-> 0]

seasonalAdjustments(season) ==
  CASE season = "Spring" ->
         [dormant |-> -100, low |-> -50, active |-> 0, peak |-> 50]
    [] season = "Summer" ->
         [dormant |-> 0, low |-> 0, active |-> 50, peak |-> 100]
    [] season = "Autumn" ->
         [dormant |-> 0, low |-> 0, active |-> 0, peak |-> 0]
    [] season = "Winter" ->
         [dormant |-> 100, low |-> 50, active |-> -50, peak |-> -100]
    [] OTHER -> [dormant |-> 0, low |-> 0, active |-> 0, peak |-> 0]

\* The tropical adjustment is left out
adjustedThresholds_noLatitude(season, latitude) ==
  LET adjustments == seasonalAdjustments(season)
  IN [dormant |-> Max(100, baseThresholds.dormant + adjustments.dormant),
      low |-> Max(200, baseThresholds.low + adjustments.low),
      active |-> Max(300, baseThresholds.active + adjustments.active),
      peak |-> Max(400, baseThresholds.peak + adjustments.peak)]

adjustedThresholds(season, latitude) ==
  LET latitudeAdjustment == IF Abs(latitude) < 235000 THEN 100 ELSE 0
      adjustments == seasonalAdjustments(season)
  IN [dormant |-> Max(100, baseThresholds.dormant + adjustments.dormant
                             + latitudeAdjustment),
      low |-> Max(200, baseThresholds.low + adjustments.low
                         + latitudeAdjustment),
      active |-> Max(300, baseThresholds.active + adjustments.active
                            + latitudeAdjustment),
      peak |-> Max(400, baseThresholds.peak + adjustments.peak
                          + latitudeAdjustment)]

\* Math.round(Math.max(0.6, 1 - 2 * |ndvi - threshold|) * 100)
calculateConfidence(ndvi, threshold) ==
  LET distance == Abs(ndvi - threshold)
      confidence == Max(600, 1000 - distance * 2)
  IN MathRound(confidence, 10)

\* The thresholds are compared with > in place of >=
classifyBloomIntensity_strict(ndvi, season, latitude) ==
  LET thresholds == adjustedThresholds(season, latitude)
  IN IF ndvi > thresholds.peak
     THEN [level |-> "Peak Bloom", intensity |-> "Very High",
           confidence |-> calculateConfidence(ndvi, thresholds.peak)]
     ELSE IF ndvi > thresholds.active
     THEN [level |-> "Active Bloom", intensity |-> "High",
           confidence |-> calculateConfidence(ndvi, thresholds.active)]
     ELSE IF ndvi > thresholds.low
     THEN [level |-> "Low Bloom", intensity |-> "Medium",
           confidence |-> calculateConfidence(ndvi, thresholds.low)]
     ELSE [level |-> "Dormant", intensity |-> "Low",
           confidence |-> calculateConfidence(ndvi, 100)]

classifyBloomIntensity(ndvi, season, latitude) ==
  LET thresholds == adjustedThresholds(season, latitude)
  IN IF ndvi >= thresholds.peak
     THEN [level |-> "Peak Bloom", intensity |-> "Very High",
           confidence |-> calculateConfidence(ndvi, thresholds.peak)]
     ELSE IF ndvi >= thresholds.active
     THEN [level |-> "Active Bloom", intensity |-> "High",
           confidence |-> calculateConfidence(ndvi, thresholds.active)]
     ELSE IF ndvi >= thresholds.low
     THEN [level |-> "Low Bloom", intensity |-> "Medium",
           confidence |-> calculateConfidence(ndvi, thresholds.low)]
     ELSE [level |-> "Dormant", intensity |-> "Low",
           confidence |-> calculateConfidence(ndvi, 100)]

has(record, field) == field \in DOMAIN record

\* The phenology index is left out of the score
calculateBloomScore_noPhenology(ndvi, plantInfo, phenologyMetrics) ==
  LET plantTerm == IF has(plantInfo, "ndviContribution")
                   THEN plantInfo.ndviContribution * 20 ELSE 0
      score == ndvi * 60 + plantTerm
  IN Min(100, Max(0, MathRound(score, 1000)))

calculateBloomScore(ndvi, plantInfo, phenologyMetrics) ==
  LET plantTerm == IF has(plantInfo, "ndviContribution")
                   THEN plantInfo.ndviContribution * 20 ELSE 0
      phenologyTerm == IF has(phenologyMetrics, "phenologyIndex")
                       THEN phenologyMetrics.phenologyIndex * 20 ELSE 0
      score == ndvi * 60 + plantTerm + phenologyTerm
  IN Min(100, Max(0, MathRound(score, 1000)))

\* assessDataQuality of bloomClassification.js
classifierDataQuality(ndviData) ==
  LET q1 == IF ndviData.confidence < 700 THEN "Fair" ELSE "Good"
      q2 == IF ndviData.source = "Fallback" THEN "Limited" ELSE q1
      q3 == IF Abs(ndviData.ndviAnomaly) > 200 THEN "Fair" ELSE q2
  IN [level |-> q3, confidence |-> MathRound(ndviData.confidence, 10)]

getBloomStatus(ndviData, phenologyData, plantData) ==
  [classification |->
     classifyBloomIntensity(ndviData.ndvi, ndviData.season, ndviData.latitude),
   bloomScore |-> calculateBloomScore(ndviData.ndvi, plantData, phenologyData),
   dataQuality |-> classifierDataQuality(ndviData)]

\* The value of a function that ends without a return statement
Undefined == [undefined |-> TRUE]

\* calculateTrend: change = (last - first) / first is compared with 0.1 and
\* -0.1; for first = 0 it is Infinity, -Infinity, or NaN, which fails both
\* comparisons
calculateTrend(data) ==
  IF Len(data) < 2 THEN "Unknown"
  ELSE LET first == data[1]
           last == data[Len(data)]
       IN IF first = 0
          THEN IF last > 0 THEN "Increasing"
               ELSE IF last < 0 THEN "Decreasing" ELSE "Stable"
          ELSE IF first > 0
          THEN IF (last - first) * 10 > first THEN "Increasing"
               ELSE IF (last - first) * 10 < 0 - first THEN "Decreasing"
               ELSE "Stable"
          ELSE IF (last - first) * 10 < first THEN "Increasing"
               ELSE IF (last - first) * 10 > 0 - first THEN "Decreasing"
               ELSE "Stable"

\* Array.prototype.findIndex(v => v >= value): 0-based, -1 when no element
\* qualifies
RECURSIVE findIndexFrom(_, _, _)
findIndexFrom(sortedArray, value, i) ==
  IF i > Len(sortedArray) THEN -1
  ELSE IF sortedArray[i] >= value THEN i - 1
  ELSE findIndexFrom(sortedArray, value, i + 1)

calculatePercentile(value, sortedArray) ==
  LET index == findIndexFrom(sortedArray, value, 1)
  IN MathRound(index * 100, Len(sortedArray))

generateComparisonMessage(trend, percentile) ==
  IF percentile \notin Int THEN <<"No comparison available">>
  ELSE LET percentileCategory == IF percentile >= 75 THEN "high"
                                 ELSE IF percentile <= 25 THEN "low"
                                 ELSE "normal"
       IN <<"Current blooming is", percentileCategory, "and", trend>>

\* Array.prototype.sort((a, b) => a - b)
RECURSIVE insertSorted(_, _)
insertSorted(sorted, v) ==
  IF sorted = <<>> THEN <<v>>
  ELSE IF v < Head(sorted) THEN <<v>> \o sorted
  ELSE <<Head(sorted)>> \o insertSorted(Tail(sorted), v)

RECURSIVE sort(_)
sort(array) ==
  IF array = <<>> THEN <<>>
  ELSE insertSorted(sort(SubSeq(array, 1, Len(array) - 1)), array[Len(array)])

RECURSIVE sum(_)
sum(array) == IF array = <<>> THEN 0 ELSE Head(array) + sum(Tail(array))

\* The source opens the block of `if (!historicalData || ...)` and the
\* object literal of its return statement, and closes one of the two
\* (part_002 lines 233-238). The two places the missing brace can go:
\* after the return statement, as the indentation has it, or at the end of
\* the function, where the rest of the body belongs to the block.
BlockEnds == {"after the return", "at the end of the function"}

\* compareWithHistorical; the history is null or [array |-> the points], an
\* average is kept as the pair of its sum and count
compareWithHistorical(currentBloom, historicalData, blockEnd) ==
  IF historicalData = Null \/ Len(historicalData.array) = 0
  THEN [trend |-> "Unknown",
        comparison |-> <<"No historical data available">>,
        percentile |-> Null]
  ELSE IF blockEnd = "at the end of the function" THEN Undefined
  ELSE LET currentNDVI == currentBloom.ndvi
           historicalNDVIs ==
             [i \in 1 .. Len(historicalData.array) |->
                historicalData.array[i].ndvi]
           recent == SubSeq(historicalNDVIs,
                            Max(1, Len(historicalNDVIs) - 2),
                            Len(historicalNDVIs))
           trend == calculateTrend(recent)
           sortedNDVIs == sort(historicalNDVIs)
           percentile == calculatePercentile(currentNDVI, sortedNDVIs)
       IN [trend |-> trend,
           comparison |-> generateComparisonMessage(trend, percentile),
           percentile |-> percentile,
           historicalAverage |->
             [sum |-> sum(sortedNDVIs), count |-> Len(sortedNDVIs)],
           currentVsAverage |->
             [sum |-> currentNDVI * Len(sortedNDVIs) - sum(sortedNDVIs),
              count |-> Len(sortedNDVIs)]]

(***************************************************************************)
(* bloomDataService.js: data quality                                       *)
(***************************************************************************)
calculateQualityScore(ndviData, plantInfo, phenologyMetrics) ==
  LET confidencePart == ndviData.confidence * 40
      sourcePart == IF ndviData.source = "MODIS" THEN 20
                    ELSE IF ndviData.source = "Fallback" THEN 10 ELSE 0
      plantPart == IF plantInfo.primarySpecies # "Mixed Vegetation"
                   THEN 20 ELSE 10
      phenologyPart == IF phenologyMetrics.phenologyIndex > 0 THEN 20 ELSE 0
  IN Min(100, MathRound(confidencePart
                          + 1000 * (sourcePart + plantPart + phenologyPart),
                        1000))

assessDataQuality(ndviData, plantInfo, phenologyMetrics) ==
  LET qualityScore == calculateQualityScore(ndviData, plantInfo,
                                            phenologyMetrics)
  IN [score |-> qualityScore,
      level |-> IF qualityScore >= 80 THEN "Excellent"
                ELSE IF qualityScore >= 60 THEN "Good"
                ELSE IF qualityScore >= 40 THEN "Fair" ELSE "Limited"]

(***************************************************************************)
(* WorldMapSection.jsx                                                     *)
(***************************************************************************)
\* The bloom status the map component substitutes for a missing one
estimatedBloomStatus ==
  [level |-> "Active Bloom", description |-> <<"Estimated bloom status">>,
   confidence |-> 60]

\* getFallbackBloomData, as far as the location object reads it
getFallbackBloomData(lat, lng, m) ==
  [location |-> [latitude |-> lat, longitude |-> lng],
   ndvi |-> [ndvi |-> 650, season |-> getSeasonForLocation(lat, m).name,
             confidence |-> 600, source |-> "Fallback Data"],
   bloomStatus |-> estimatedBloomStatus,
   plantInfo |-> [primarySpecies |-> "Mixed Vegetation",
                  description |-> <<"Local vegetation in seasonal transition">>,
                  bloomIntensity |-> "Low"]]

\* The wrapper getBloomData of the map component, applied to the outcome of
\* the service call it awaits
wrappedBloomData(lat, lng, m, outcome) ==
  IF outcome.status = "fulfilled"
  THEN LET bloomData == outcome.value
       IN [location |-> [latitude |-> lat, longitude |-> lng],
           ndvi |-> bloomData.ndvi,
           bloomStatus |-> IF has(bloomData, "bloomStatus")
                           THEN bloomData.bloomStatus
                           ELSE estimatedBloomStatus,
           plantInfo |-> bloomData.plantInfo]
  ELSE getFallbackBloomData(lat, lng, m)

\* handleLocationClick: intensity: bloomData.bloomStatus?.level || 'Active Bloom'
clickedIntensity(bloomData) ==
  IF has(bloomData.bloomStatus, "level") THEN bloomData.bloomStatus.level
  ELSE "Active Bloom"

(***************************************************************************)
(* imageApi.js                                                             *)
(***************************************************************************)
getRegionFromCoordinates(latitude, longitude) ==
  IF latitude >= 300000 /\ latitude <= 460000
     /\ longitude >= 1290000 /\ longitude <= 1460000 THEN "japan"
  ELSE IF latitude >= 240000 /\ latitude <= 490000
     /\ longitude >= -1250000 /\ longitude <= -660000 THEN "usa"
  ELSE IF latitude >= 490000 /\ latitude <= 610000
     /\ longitude >= -80000 /\ longitude <= 20000 THEN "uk"
  ELSE IF latitude >= -440000 /\ latitude <= -100000
     /\ longitude >= 1130000 /\ longitude <= 1540000 THEN "australia"
  ELSE IF latitude >= 410000 /\ latitude <= 510000
     /\ longitude >= -50000 /\ longitude <= 80000 THEN "france"
  ELSE IF Abs(latitude) < 235000 THEN "tropical"
  ELSE "general"

\* REGIONAL_FLOWER_MAPPINGS as the module defines it
initialFlowerMappings ==
  [japan |->
     [spring |-> <<"cherry blossom", "sakura", "magnolia", "plum blossom">>,
      summer |-> <<"hydrangea", "lotus", "sunflower">>,
      autumn |-> <<"chrysanthemum", "cosmos", "maple leaves">>,
      winter |-> <<"camellia", "winter jasmine", "plum blossom">>],
   usa |->
     [spring |-> <<"tulip", "daffodil", "cherry blossom", "magnolia">>,
      summer |-> <<"rose", "sunflower", "lavender", "wildflower">>,
      autumn |-> <<"chrysanthemum", "aster", "goldenrod">>,
      winter |-> <<"poinsettia", "holly", "winter rose">>],
   uk |->
     [spring |-> <<"bluebell", "daffodil", "primrose", "snowdrop">>,
      summer |-> <<"rose", "lavender", "foxglove", "wildflower">>,
      autumn |-> <<"chrysanthemum", "heather", "autumn leaves">>,
      winter |-> <<"holly", "ivy", "winter aconite">>],
   australia |->
     [spring |-> <<"wattle", "banksia", "waratah", "protea">>,
      summer |-> <<"jacaranda", "eucalyptus flower", "kangaroo paw">>,
      autumn |-> <<"autumn crocus", "sturt desert rose">>,
      winter |-> <<"winter rose", "cyclamen", "winter heath">>],
   france |->
     [spring |-> <<"tulip", "daffodil", "magnolia", "lilac">>,
      summer |-> <<"lavender", "sunflower", "rose", "poppy">>,
      autumn |-> <<"chrysanthemum", "autumn leaves">>,
      winter |-> <<"holly", "winter jasmine", "camellia">>],
   tropical |->
     [year_round |-> <<"hibiscus", "bougainvillea", "orchid",
                       "bird of paradise", "frangipani">>]]

\* String.prototype.toLowerCase on the name of a primary species
lowerCaseName(name) ==
  CASE name = "Cherry Blossom" -> "cherry blossom"
    [] name = "Rose" -> "rose"
    [] name = "Chrysanthemum" -> "chrysanthemum"
    [] name = "Camellia" -> "camellia"
    [] name = "Banksia" -> "banksia"
    [] name = "Jacaranda" -> "jacaranda"
    [] name = "Autumn Crocus" -> "autumn crocus"
    [] name = "Winter Rose" -> "winter rose"
    [] name = "Hibiscus" -> "hibiscus"
    [] name = "Mixed Vegetation" -> "mixed vegetation"

\* getRegionalFlowerImages up to its first await: the keyword array of the
\* region and season is the table's own array, and unshift puts the primary
\* species at its front.  The value is the table after the call.
unshiftKeyword(mappings, latitude, longitude, season, plantInfo) ==
  LET region == getRegionFromCoordinates(latitude, longitude)
      key == IF region = "tropical" THEN "year_round"
             ELSE IF toLowerCase(season) \in DOMAIN mappings[region]
             THEN toLowerCase(season) ELSE "spring"
  IN [mappings EXCEPT ![region][key] =
        <<lowerCaseName(plantInfo.primarySpecies)>> \o @]

\* The regions REGIONAL_FLOWER_MAPPINGS has an entry for
mappedRegions == {"japan", "usa", "uk", "australia", "france", "tropical"}

\* getRegionalFlowerImages raises a TypeError: regionFlowers is undefined
\* and its season property is read.
regionalImagesThrow(latitude, longitude) ==
  getRegionFromCoordinates(latitude, longitude) \notin mappedRegions

\* getRegionalFlowerImages: the list returned when the image searches are
\* unavailable.  Every Unsplash lookup runs with the demo key and yields the
\* generic mock image, every failed Wikimedia search yields the same image,
\* and the duplicates are removed.
getRegionalFlowerImages == [images |-> <<"mock-flower-1">>]

(***************************************************************************)
(* bloomDataService.js: the requests                                       *)
(***************************************************************************)
LocA == [latitude |-> 100001, longitude |-> 200000]
LocB == [latitude |-> 100002, longitude |-> 200000]
LocC == [latitude |-> 600000, longitude |-> 1000000]
Locations == {LocA, LocB, LocC}

\* The getBloomData invocations the model follows: MaxCalls single ones, or
\* the MaxBatch ones of a batch
Calls == 1 .. Max(MaxCalls, MaxBatch)

\* The options a caller passes: the defaults, forceRefresh, no images
defaultOptions == [forceRefresh |-> FALSE, includeImages |-> TRUE]
Options ==
  {defaultOptions,
   [forceRefresh |-> TRUE, includeImages |-> TRUE],
   [forceRefresh |-> FALSE, includeImages |-> FALSE]}

\* The requests the callers make
Requests ==
  {[location |-> LocA, options |-> o] : o \in Options}
  \cup {[location |-> LocB, options |-> defaultOptions],
        [location |-> LocC, options |-> defaultOptions]}

\* `${latitude}_${longitude}` of getBloomData and addToRefreshQueue
requestKey(latitude, longitude) == <<latitude, longitude>>

emptyMap == [k \in {} |-> Null]

fulfilled(value) == [status |-> "fulfilled", value |-> value]
rejected(reason) == [status |-> "rejected", reason |-> reason]

\* new Error(`Failed to fetch bloom data: ${error.message}`) of computation p
fetchError(p, message) ==
  [message |-> <<"Failed to fetch bloom data:", message>>, thrownBy |-> p]

\* No processRefreshQueue run yet: the keys whose refresh promise is
\* pending, and the keys whose refresh was attempted in the current run
idleRun == [runs |-> 0, pending |-> {}, attempted |-> {}]

idleCall ==
  [pc |-> "idle", latitude |-> 0, longitude |-> 0, forceRefresh |-> FALSE,
   includeImages |-> FALSE, runsInit |-> FALSE, promise |-> 0,
   outcome |-> Null, inFlightAtLookup |-> {}, fetchesAtStart |-> 0]

idleComp ==
  [phase |-> "none", latitude |-> 0, longitude |-> 0,
   includeImages |-> FALSE, ndviData |-> Null, plantInfo |-> Null,
   phenology |-> Null, result |-> Null, reason |-> Null, fetchId |-> 0]

idleBatch ==
  [pc |-> "idle", locations |-> <<>>, forceRefresh |-> FALSE,
   includeImages |-> FALSE, runsInit |-> FALSE, first |-> 0,
   outcome |-> Null]

settled(p) == comp[p].phase \in {"fulfilled", "rejected"}

settlement(p) ==
  IF comp[p].phase = "fulfilled" THEN fulfilled(comp[p].result)
  ELSE rejected(comp[p].reason)

\* The computations whose creator still awaits them: their promises are the
\* ones requestQueue holds
inFlight == {p \in Calls : call[p].pc = "own"}

\* The result object of fetchBloomData, before the optional images
composeResult(latitude, longitude, ndviData, plantInfo, phenologyMetrics) ==
  [location |-> [latitude |-> latitude, longitude |-> longitude],
   ndvi |-> ndviData,
   plantInfo |-> plantInfo,
   phenology |-> phenologyMetrics,
   bloomStatus |-> getBloomStatus(ndviData, phenologyMetrics, plantInfo),
   dataQuality |-> assessDataQuality(ndviData, plantInfo, phenologyMetrics)]

withImages(result, images) ==
  [f \in DOMAIN result \cup {"images"} |->
     IF f = "images" THEN images ELSE result[f]]

\* A cache item left in localStorage by an earlier session: the composed
\* answer of LocA, written at day 0 in month 1.
storedObservation ==
  mockNDVIFetch(LocA.latitude, LocA.longitude, 1, 99, 850, 0)

storedResult ==
  composeResult(LocA.latitude, LocA.longitude, storedObservation,
    getPlantInformation(LocA.latitude, storedObservation.season),
    getPhenologyMetrics(LocA.latitude, storedObservation.ndvi,
                        storedObservation.season, 1))

storedCache ==
  cacheSet(emptyMap, generateKey(LocA.latitude, LocA.longitude, "LOCATIONS"),
           storedResult, "LOCATIONS", 0)

Init ==
  /\ now = 0
  /\ month \in StartMonths
  /\ storageOk \in BOOLEAN
  /\ storage \in {Null, storedCache}
  /\ ~storageOk => storage # Null
  /\ cache = loadFromStorage(storage, storageOk)
  /\ requestQueue = emptyMap
  /\ isInitialized = FALSE
  /\ cleanupTimers = 0
  /\ refreshInterval = FALSE
  /\ refreshQueue = {}
  /\ nextCall = 0
  /\ call = [c \in Calls |-> idleCall]
  /\ comp = [c \in Calls |-> idleComp]
  /\ batch = idleBatch
  /\ fetchCount = 0
  /\ ticks = 0
  /\ refreshRun = idleRun
  /\ isRefreshing = FALSE
  /\ REGIONAL_FLOWER_MAPPINGS = initialFlowerMappings
  /\ input = Null
  /\ output = Null

\* The calls a getBatchBloomData that awaits its initialize() will make
reserved == IF batch.pc = "init" THEN Len(batch.locations) ELSE 0

\* The calls that have not returned yet
pending == {c \in Calls : call[c].pc \in {"init", "own", "shared"}}

newCall(loc, forceRefresh, includeImages) ==
  [idleCall EXCEPT !.pc = "init", !.latitude = loc.latitude,
                   !.longitude = loc.longitude,
                   !.forceRefresh = forceRefresh,
                   !.includeImages = includeImages,
                   !.runsInit = ~isInitialized,
                   !.fetchesAtStart = fetchCount]

\* getBloomData(latitude, longitude, options) up to its await of initialize()
Start(loc, forceRefresh, includeImages) ==
  /\ nextCall + 1 + reserved <= MaxCalls
  /\ Cardinality(pending) + 1 + reserved <= MaxPending
  /\ nextCall' = nextCall + 1
  /\ call' = [call EXCEPT ![nextCall + 1] =
                            newCall(loc, forceRefresh, includeImages)]
  /\ UNCHANGED <<now, month, storageOk, storage, cache, requestQueue,
                 isInitialized, cleanupTimers, refreshInterval, refreshQueue,
                 comp, batch, fetchCount, ticks, input,
                 output, REGIONAL_FLOWER_MAPPINGS, isRefreshing, refreshRun>>

\* initializeDataCache, when this initialize() passed the isInitialized test:
\* the Map after scheduleCacheCleanup's initial cleanup
cacheAfterInitialize(runsInit) ==
  IF runsInit THEN cleanup(cache, now) ELSE cache

\* getBloomData from the return of initialize() to its next await or return:
\* the LOCATIONS lookup, the requestQueue lookup and, for a new computation,
\* fetchBloomData and getNDVIData up to the await of the provider.
AfterInit(c) ==
  LET me == call[c]
      c0 == cacheAfterInitialize(me.runsInit)
      locKey == generateKey(me.latitude, me.longitude, "LOCATIONS")
      cachedData == IF me.forceRefresh THEN Null
                    ELSE cacheGetData(c0, locKey, "LOCATIONS", now)
      c1 == IF me.forceRefresh THEN c0
            ELSE cacheGetMap(c0, locKey, "LOCATIONS", now)
      key == requestKey(me.latitude, me.longitude)
      joins == cachedData = Null /\ key \in DOMAIN requestQueue
      creates == cachedData = Null /\ key \notin DOMAIN requestQueue
      ndviKey == generateKey(me.latitude, me.longitude, "NDVI")
      cachedNdvi == cacheGetData(c1, ndviKey, "NDVI", now)
      c2 == IF creates THEN cacheGetMap(c1, ndviKey, "NDVI", now) ELSE c1
      saves == c0 # cache \/ ~me.forceRefresh \/ creates
      looked == [me EXCEPT !.runsInit = FALSE, !.inFlightAtLookup = inFlight]
      started == [idleComp EXCEPT !.latitude = me.latitude,
                                  !.longitude = me.longitude,
                                  !.includeImages = me.includeImages]
  IN
  /\ me.pc = "init"
  /\ isInitialized' = (isInitialized \/ me.runsInit)
  /\ cleanupTimers' = cleanupTimers + (IF me.runsInit THEN 1 ELSE 0)
  /\ refreshInterval' = (refreshInterval \/ me.runsInit)
  /\ cache' = c2
  /\ storage' = IF saves THEN saveToStorage(c2, storage, storageOk)
                ELSE storage
  /\ IF saveToStorageThrows(storageOk) /\ (~me.forceRefresh \/ creates)
     THEN \* an exception of the cache layer leaves getBloomData
          /\ call' = [call EXCEPT ![c] =
                        [looked EXCEPT !.pc = "done",
                           !.outcome = rejected([message |-> <<"storage">>,
                                                 thrownBy |-> c])]]
          /\ UNCHANGED <<requestQueue, comp, fetchCount>>
     ELSE IF cachedData # Null
     THEN \* return cachedData
          /\ call' = [call EXCEPT ![c] =
                        [looked EXCEPT !.pc = "done",
                                       !.outcome = fulfilled(cachedData)]]
          /\ UNCHANGED <<requestQueue, comp, fetchCount>>
     ELSE IF joins
     THEN \* return this.requestQueue.get(requestKey)
          /\ call' = [call EXCEPT ![c] =
                        [looked EXCEPT !.pc = "shared",
                                       !.promise = requestQueue[key]]]
          /\ UNCHANGED <<requestQueue, comp, fetchCount>>
     ELSE /\ call' = [call EXCEPT ![c] =
                        [looked EXCEPT !.pc = "own", !.promise = c]]
          /\ requestQueue' = mapSet(requestQueue, key, c)
          /\ IF cachedNdvi # Null
             THEN /\ comp' = [comp EXCEPT ![c] =
                       [started EXCEPT !.phase = "classify",
                                       !.ndviData = cachedNdvi]]
                  /\ UNCHANGED fetchCount
             ELSE /\ comp' = [comp EXCEPT ![c] =
                       [started EXCEPT !.phase = "ndvi",
                                       !.fetchId = fetchCount + 1]]
                  /\ fetchCount' = fetchCount + 1
  /\ UNCHANGED <<now, month, storageOk, refreshQueue, nextCall, batch, ticks, input,
                 output, REGIONAL_FLOWER_MAPPINGS, isRefreshing, refreshRun>>

\* The provider answers: fetchNDVIData resolves, getNDVIData caches the
\* observation and returns it.
CompNDVI(p, answer) ==
  LET me == comp[p]
      ndviData == fetchNDVIData(me.latitude, me.longitude, month, answer,
                                me.fetchId)
      c1 == cacheSet(cache, generateKey(me.latitude, me.longitude, "NDVI"),
                     ndviData, "NDVI", now)
  IN
  /\ me.phase = "ndvi"
  /\ comp' = [comp EXCEPT ![p].phase = "classify", ![p].ndviData = ndviData]
  /\ cache' = c1
  /\ storage' = saveToStorage(c1, storage, storageOk)
  /\ UNCHANGED <<now, month, storageOk, requestQueue, isInitialized,
                 cleanupTimers, refreshInterval, refreshQueue, nextCall, call,
                 batch, fetchCount, ticks, input,
                 output, REGIONAL_FLOWER_MAPPINGS, isRefreshing, refreshRun>>

\* BloomDataService.getPlantInformation: the value returned and the Map
\* afterwards
cachedPlantInformation(c, latitude, longitude, season, t) ==
  LET key == generateKey(latitude, longitude, "PHENOLOGY")
      cached == cacheGetData(c, key, "PHENOLOGY", t)
      c1 == cacheGetMap(c, key, "PHENOLOGY", t)
      hit == cached # Null /\ has(cached, "plantInfo")
      plantInfo == IF hit THEN cached.plantInfo
                   ELSE getPlantInformation(latitude, season)
  IN [value |-> plantInfo,
      cache |-> IF hit THEN c1
                ELSE cacheSet(c1, key, [plantInfo |-> plantInfo],
                              "PHENOLOGY", t)]

\* BloomDataService.getPhenologyMetrics: the value returned and the Map
\* afterwards
cachedPhenologyMetrics(c, latitude, longitude, ndvi, season, m, t) ==
  LET key == generateKey(latitude, longitude, "PHENOLOGY")
      cached == cacheGetData(c, key, "PHENOLOGY", t)
      c1 == cacheGetMap(c, key, "PHENOLOGY", t)
      hit == cached # Null /\ has(cached, "phenologyMetrics")
      phenologyMetrics ==
        IF hit THEN cached.phenologyMetrics
        ELSE getPhenologyMetrics(latitude, ndvi, season, m)
  IN [value |-> phenologyMetrics,
      cache |-> IF hit THEN c1
                ELSE cacheSet(c1, key,
                              [phenologyMetrics |-> phenologyMetrics],
                              "PHENOLOGY", t)]

imageKey(latitude, longitude, season) ==
  Append(generateKey(latitude, longitude, "IMAGES"), season)

\* fetchBloomData from the return of getNDVIData to the await of the image
\* searches (or to its return): getPlantInformation, getPhenologyMetrics,
\* getBloomStatus, the result object and, with includeImages, the IMAGES
\* lookup of getFlowerImages.  The awaits in between are awaits of promises
\* that are already resolved; the model runs these continuations as one step.
CompClassify(p) ==
  LET me == comp[p]
      plantStep == cachedPlantInformation(cache, me.latitude, me.longitude,
                                      me.ndviData.season, now)
      phenoStep == cachedPhenologyMetrics(plantStep.cache, me.latitude, me.longitude,
                                      me.ndviData.ndvi, me.ndviData.season,
                                      month, now)
      result == composeResult(me.latitude, me.longitude, me.ndviData,
                              plantStep.value, phenoStep.value)
      key == imageKey(me.latitude, me.longitude, me.ndviData.season)
      cached == cacheGetData(phenoStep.cache, key, "IMAGES", now)
      c3 == IF me.includeImages
            THEN cacheGetMap(phenoStep.cache, key, "IMAGES", now)
            ELSE phenoStep.cache
      classified == [me EXCEPT !.plantInfo = plantStep.value,
                               !.phenology = phenoStep.value]
  IN
  /\ me.phase = "classify"
  /\ REGIONAL_FLOWER_MAPPINGS' =
       IF /\ me.includeImages /\ cached = Null
          /\ ~regionalImagesThrow(me.latitude, me.longitude)
       THEN unshiftKeyword(REGIONAL_FLOWER_MAPPINGS, me.latitude,
                           me.longitude, me.ndviData.season, plantStep.value)
       ELSE REGIONAL_FLOWER_MAPPINGS
  /\ cache' = c3
  /\ storage' = saveToStorage(c3, storage, storageOk)
  /\ IF ~me.includeImages
     THEN comp' = [comp EXCEPT ![p] =
                     [classified EXCEPT !.phase = "fulfilled",
                                        !.result = result]]
     ELSE IF cached # Null
     THEN comp' = [comp EXCEPT ![p] =
                     [classified EXCEPT !.phase = "fulfilled",
                                        !.result = withImages(result, cached)]]
     ELSE IF regionalImagesThrow(me.latitude, me.longitude)
     THEN comp' = [comp EXCEPT ![p] =
                     [classified EXCEPT !.phase = "rejected",
                                        !.reason = fetchError(p, "TypeError")]]
     ELSE comp' = [comp EXCEPT ![p] =
                     [classified EXCEPT !.phase = "images",
                                        !.result = result]]
  /\ UNCHANGED <<now, month, storageOk, requestQueue, isInitialized,
                 cleanupTimers, refreshInterval, refreshQueue, nextCall, call,
                 batch, fetchCount, ticks, input,
                 output, isRefreshing, refreshRun>>

\* The image searches answer: getFlowerImages caches the list, fetchBloomData
\* returns the result.
CompImages(p) ==
  LET me == comp[p]
      images == getRegionalFlowerImages
      c1 == cacheSet(cache,
                     imageKey(me.latitude, me.longitude, me.ndviData.season),
                     images, "IMAGES", now)
  IN
  /\ me.phase = "images"
  /\ comp' = [comp EXCEPT ![p].phase = "fulfilled",
                          ![p].result = withImages(me.result, images)]
  /\ cache' = c1
  /\ storage' = saveToStorage(c1, storage, storageOk)
  /\ UNCHANGED <<now, month, storageOk, requestQueue, isInitialized,
                 cleanupTimers, refreshInterval, refreshQueue, nextCall, call,
                 batch, fetchCount, ticks, input,
                 output, REGIONAL_FLOWER_MAPPINGS, isRefreshing, refreshRun>>

\* The entry is written under the coordinates as given, not rounded
cacheLocationData_rawKey(c, latitude, longitude, bloomStatus, t) ==
  cacheSet(c, <<"LOCATIONS", latitude, longitude>>, bloomStatus,
           "LOCATIONS", t)

\* cacheLocationData: the Map afterwards
cacheLocationData(c, latitude, longitude, bloomStatus, t) ==
  cacheSet(c, generateKey(latitude, longitude, "LOCATIONS"), bloomStatus,
           "LOCATIONS", t)

\* The key is deleted after the await inside the try block, not in a finally
queueAfterAwait_noFinally(queue, key, settledAs) ==
  IF settledAs = "fulfilled" THEN mapDelete(queue, key) ELSE queue

\* The requestQueue after getBloomData has left its try block, normally
\* (settledAs "fulfilled") or by the exception of the awaited promise: the
\* finally block deletes the key in both cases.
queueAfterAwait(queue, key, settledAs) == mapDelete(queue, key)

\* getBloomData of the caller that started the computation, from the await
\* of requestPromise on: cacheLocationData, scheduleLocationRefresh, and the
\* finally block.
CreatorResume(c) ==
  LET me == call[c]
      c1 == cacheLocationData(cache, me.latitude, me.longitude,
                              comp[c].result, now)
  IN
  /\ me.pc = "own"
  /\ settled(c)
  /\ call' = [call EXCEPT ![c].pc = "done", ![c].outcome = settlement(c)]
  /\ requestQueue' = queueAfterAwait(requestQueue,
                                     requestKey(me.latitude, me.longitude),
                                     comp[c].phase)
  /\ IF comp[c].phase = "fulfilled"
     THEN /\ cache' = c1
          /\ storage' = saveToStorage(c1, storage, storageOk)
          /\ refreshQueue' =
               refreshQueue \cup {requestKey(me.latitude, me.longitude)}
     ELSE UNCHANGED <<cache, storage, refreshQueue>>
  /\ UNCHANGED <<now, month, storageOk, isInitialized, cleanupTimers,
                 refreshInterval, nextCall, comp, batch, fetchCount, ticks, input,
                 output, REGIONAL_FLOWER_MAPPINGS, isRefreshing, refreshRun>>

\* getBloomData of a caller that found the key in requestQueue: the promise
\* it returned settles.
SharerResume(c) ==
  /\ call[c].pc = "shared"
  /\ settled(call[c].promise)
  /\ call' = [call EXCEPT ![c].pc = "done",
                          ![c].outcome = settlement(call[c].promise)]
  /\ UNCHANGED <<now, month, storageOk, storage, cache, requestQueue,
                 isInitialized, cleanupTimers, refreshInterval, refreshQueue,
                 nextCall, comp, batch, fetchCount, ticks, input,
                 output, REGIONAL_FLOWER_MAPPINGS, isRefreshing, refreshRun>>

(***************************************************************************)
(* bloomDataService.js: getBatchBloomData                                  *)
(***************************************************************************)
LocationLists ==
  UNION {[1 .. n -> Locations] : n \in 0 .. MaxBatch}

\* getBatchBloomData(locations, options) up to its await of initialize()
BatchStart(locations, forceRefresh, includeImages) ==
  /\ batch.pc = "idle"
  /\ nextCall + Len(locations) <= Cardinality(Calls)
  /\ batch' = [idleBatch EXCEPT !.pc = "init", !.locations = locations,
                                !.forceRefresh = forceRefresh,
                                !.includeImages = includeImages,
                                !.runsInit = ~isInitialized]
  /\ UNCHANGED <<now, month, storageOk, storage, cache, requestQueue,
                 isInitialized, cleanupTimers, refreshInterval, refreshQueue,
                 nextCall, call, comp, fetchCount, ticks, input,
                 output, REGIONAL_FLOWER_MAPPINGS, isRefreshing, refreshRun>>

\* getBatchBloomData from the return of initialize(): locations.map starts
\* one getBloomData per location, each running up to its own await.
BatchAfterInit ==
  LET n == Len(batch.locations)
      c0 == cacheAfterInitialize(batch.runsInit)
      started == [newCall(LocA, FALSE, FALSE) EXCEPT !.runsInit = FALSE]
  IN
  /\ batch.pc = "init"
  /\ isInitialized' = (isInitialized \/ batch.runsInit)
  /\ cleanupTimers' = cleanupTimers + (IF batch.runsInit THEN 1 ELSE 0)
  /\ refreshInterval' = (refreshInterval \/ batch.runsInit)
  /\ cache' = c0
  /\ storage' = IF c0 # cache THEN saveToStorage(c0, storage, storageOk)
                ELSE storage
  /\ call' = [c \in Calls |->
                IF c > nextCall /\ c <= nextCall + n
                THEN [started EXCEPT
                        !.latitude = batch.locations[c - nextCall].latitude,
                        !.longitude = batch.locations[c - nextCall].longitude,
                        !.forceRefresh = batch.forceRefresh,
                        !.includeImages = batch.includeImages,
                        !.runsInit = ~(isInitialized \/ batch.runsInit)]
                ELSE call[c]]
  /\ nextCall' = nextCall + n
  /\ batch' = [batch EXCEPT !.pc = "waiting", !.runsInit = FALSE,
                            !.first = nextCall + 1]
  /\ UNCHANGED <<now, month, storageOk, requestQueue, refreshQueue, comp,
                 fetchCount, ticks, input,
                 output, REGIONAL_FLOWER_MAPPINGS, isRefreshing, refreshRun>>

batchCalls == {c \in Calls : c >= batch.first
                              /\ c < batch.first + Len(batch.locations)}

slotOf(location, outcome) ==
  [location |-> location,
   data |-> IF outcome.status = "fulfilled" THEN outcome.value ELSE Null,
   error |-> IF outcome.status = "rejected" THEN outcome.reason ELSE Null]

\* Promise.all in place of Promise.allSettled: the first rejection rejects
allSettled_rejectsOnFailure(outcomes) ==
  IF \E i \in DOMAIN outcomes : outcomes[i].status = "rejected"
  THEN LET first == CHOOSE i \in DOMAIN outcomes :
                      /\ outcomes[i].status = "rejected"
                      /\ \A j \in DOMAIN outcomes :
                           outcomes[j].status = "rejected" => i <= j
       IN rejected(outcomes[first].reason)
  ELSE fulfilled(outcomes)

\* await Promise.allSettled(promises) for the outcomes of the promises:
\* fulfilled with all the outcomes, whatever they are
allSettled(outcomes) == fulfilled(outcomes)

\* getBatchBloomData from the await of Promise.allSettled on
batchReturn(locations, outcomes) ==
  LET results == allSettled(outcomes)
  IN IF results.status = "rejected" THEN results
     ELSE fulfilled([i \in 1 .. Len(locations) |->
                       slotOf(locations[i], results.value[i])])

\* The promises of the batch have all settled: getBatchBloomData returns
BatchDone ==
  /\ batch.pc = "waiting"
  /\ \A c \in batchCalls : call[c].pc = "done"
  /\ batch' = [batch EXCEPT !.pc = "done",
                 !.outcome =
                   batchReturn(batch.locations,
                               [i \in 1 .. Len(batch.locations) |->
                                  call[batch.first + i - 1].outcome])]
  /\ UNCHANGED <<now, month, storageOk, storage, cache, requestQueue,
                 isInitialized, cleanupTimers, refreshInterval, refreshQueue,
                 nextCall, call, comp, fetchCount, ticks, input,
                 output, REGIONAL_FLOWER_MAPPINGS, isRefreshing, refreshRun>>

(***************************************************************************)
(* The environment: the clock and the timers                               *)
(***************************************************************************)
\* The days a clock advance can add, and the month boundaries they can cross
ClockSteps ==
  {[days |-> 7, months |-> 0], [days |-> 14, months |-> 0],
   [days |-> 30, months |-> 1], [days |-> 90, months |-> 3]}

\* Days pass.  A request takes about half a second (the setTimeout of
\* mockNDVIFetch), so the days pass between the requests, not within one.
Tick(d, k) ==
  /\ ticks < MaxTicks
  /\ pending = {}
  /\ batch.pc \in {"idle", "done"}
  /\ ticks' = ticks + 1
  /\ now' = now + d
  /\ month' = ((month - 1 + k) % 12) + 1
  /\ UNCHANGED <<storageOk, storage, cache, requestQueue, isInitialized,
                 cleanupTimers, refreshInterval, refreshQueue, nextCall, call,
                 comp, batch, fetchCount, input, output, REGIONAL_FLOWER_MAPPINGS, isRefreshing, refreshRun>>

\* The hourly timer of scheduleCacheCleanup fires
CleanupTimer ==
  LET c1 == cleanup(cache, now)
  IN
  /\ cleanupTimers > 0
  /\ c1 # cache
  /\ cache' = c1
  /\ storage' = saveToStorage(c1, storage, storageOk)
  /\ UNCHANGED <<now, month, storageOk, requestQueue, isInitialized,
                 cleanupTimers, refreshInterval, refreshQueue, nextCall, call,
                 comp, batch, fetchCount, ticks, input,
                 output, REGIONAL_FLOWER_MAPPINGS, isRefreshing, refreshRun>>

\* The steps of the getBloomData requests that have been made
Computation ==
  \/ \E c \in Calls : AfterInit(c)
  \/ \E p \in Calls, answer \in ProviderAnswers : CompNDVI(p, answer)
  \/ \E p \in Calls : CompClassify(p)
  \/ \E p \in Calls : CompImages(p)
  \/ \E c \in Calls : CreatorResume(c)
  \/ \E c \in Calls : SharerResume(c)

(***************************************************************************)
(* dataCache.js: BackgroundRefreshService                                  *)
(***************************************************************************)
\* The 6-hour timer of startBackgroundRefresh fires: processRefreshQueue up
\* to its await.  Array.from(this.refreshQueue) fixes the keys of the run.
ProcessRefreshQueue ==
  /\ refreshInterval
  /\ refreshRun.runs < MaxRuns
  /\ IF isRefreshing \/ refreshQueue = {}
     THEN UNCHANGED <<isRefreshing, refreshRun>>
     ELSE /\ isRefreshing' = TRUE
          /\ refreshRun' = [runs |-> refreshRun.runs + 1,
                            pending |-> refreshQueue, attempted |-> {}]
  /\ UNCHANGED <<now, month, storageOk, storage, cache, requestQueue,
                 isInitialized, cleanupTimers, refreshInterval, refreshQueue,
                 nextCall, call, comp, batch, fetchCount, ticks, input,
                 output, REGIONAL_FLOWER_MAPPINGS>>

\* The refresh of one key of the run: the provider answers, the observation
\* and the plant information are cached, the promise of the key settles.
RefreshLocation(k, answer) ==
  LET lat == k[1]
      lon == k[2]
      ndviData == fetchNDVIData(lat, lon, month, answer, fetchCount + 1)
      c1 == cacheSet(cache, generateKey(lat, lon, "NDVI"), ndviData, "NDVI",
                     now)
      plantInfo == getPlantInformation(lat, ndviData.season)
      c2 == cacheSet(c1, generateKey(lat, lon, "PHENOLOGY"), plantInfo,
                     "PHENOLOGY", now)
  IN
  /\ isRefreshing
  /\ k \in refreshRun.pending
  /\ fetchCount' = fetchCount + 1
  /\ cache' = c2
  /\ storage' = saveToStorage(c2, storage, storageOk)
  /\ refreshRun' = [refreshRun EXCEPT !.pending = @ \ {k},
                                      !.attempted = @ \cup {k}]
  /\ UNCHANGED <<now, month, storageOk, requestQueue, isInitialized,
                 cleanupTimers, refreshInterval, refreshQueue, nextCall, call,
                 comp, batch, ticks, input, output, REGIONAL_FLOWER_MAPPINGS,
                 isRefreshing>>

\* Promise.allSettled(refreshPromises) has resolved: the queue is cleared and
\* the finally block resets isRefreshing.
RefreshSettled ==
  /\ isRefreshing
  /\ refreshRun.pending = {}
  /\ refreshQueue' = {}
  /\ isRefreshing' = FALSE
  /\ UNCHANGED <<now, month, storageOk, storage, cache, requestQueue,
                 isInitialized, cleanupTimers, refreshInterval, nextCall,
                 call, comp, batch, fetchCount, ticks, input, output,
                 REGIONAL_FLOWER_MAPPINGS, refreshRun>>

\* The requests made while the background refresh runs
RefreshRequests ==
  {[location |-> LocA,
    options |-> [forceRefresh |-> FALSE, includeImages |-> TRUE]],
   [location |-> LocB,
    options |-> [forceRefresh |-> TRUE, includeImages |-> FALSE]]}

\* getBloomData calls and the background refresh
NextRefresh ==
  \/ \E r \in RefreshRequests :
        Start(r.location, r.options.forceRefresh, r.options.includeImages)
  \/ Computation
  \/ ProcessRefreshQueue
  \/ \E k \in refreshRun.pending, answer \in ProviderAnswers :
        RefreshLocation(k, answer)
  \/ RefreshSettled

SpecRefresh == Init /\ [][NextRefresh]_vars

\* The single requests, the clock and the cleanup timer
Next ==
  \/ \E r \in Requests :
        Start(r.location, r.options.forceRefresh, r.options.includeImages)
  \/ Computation
  \/ \E step \in ClockSteps : Tick(step.days, step.months)
  \/ CleanupTimer

Spec == Init /\ [][Next]_vars

\* A batch request, the clock standing still
NextBatch ==
  \/ \E ls \in LocationLists, o \in Options :
        BatchStart(ls, o.forceRefresh, o.includeImages)
  \/ Computation
  \/ BatchAfterInit
  \/ BatchDone

SpecBatch == Init /\ [][NextBatch]_vars

TypeOK ==
  /\ now \in Nat
  /\ month \in Months
  /\ nextCall \in 0 .. Cardinality(Calls)
  /\ \A c \in Calls : call[c].pc \in {"idle", "init", "own", "shared", "done"}

(***************************************************************************)
(* The functions on their own: the arguments are drawn at the start, the   *)
(* function is applied once.                                               *)
(***************************************************************************)
Latitudes ==
  {-900000, -338688, -235000, -1, 0, 100001, 235000, 356762, 600000, 900000}

\* process.env as the build sees it: the two variables unset, or set
Environments ==
  {[REACT_APP_NASA_USERNAME |-> "", REACT_APP_NASA_PASSWORD |-> ""],
   [REACT_APP_NASA_USERNAME |-> "user", REACT_APP_NASA_PASSWORD |-> "secret"]}

NASA_CREDENTIALS(env) ==
  [username |-> env.REACT_APP_NASA_USERNAME,
   password |-> env.REACT_APP_NASA_PASSWORD]

FetchInputs ==
  [fn : {"fetchNDVIData"}, latitude : Latitudes, longitude : {200000},
   month : Months, answer : ProviderAnswers, env : Environments]

\* NDVI values from 0 to 1 in steps of 0.005
NdviValues == {5 * k : k \in 0 .. 200}

\* The season names of getSeasonForLocation, and one it never returns
Seasons == {"Spring", "Summer", "Autumn", "Winter"}
SeasonArguments == Seasons \cup {"Monsoon"}

\* Latitudes on both sides of the tropics (23.5 degrees) and of the equator
ClassifyLatitudes ==
  {-900000, -235000, -234999, 0, 100000, 234999, 235000, 450000}

ClassifyInputs ==
  [fn : {"classifyBloomIntensity"}, ndvi : NdviValues,
   season : SeasonArguments, latitude : ClassifyLatitudes, month : {1}]

\* getBloomStatus as fetchBloomData calls it, with the plant information
\* and the phenology metrics present or missing
StatusInputs ==
  [fn : {"getBloomStatus"}, ndvi : NdviValues, season : Seasons,
   latitude : ClassifyLatitudes, month : {1},
   plant : BOOLEAN, phenology : BOOLEAN]

\* Latitudes in both hemispheres, the equator and its two neighbours
SeasonLatitudes == {-450000, -1, 0, 1, 450000}

SeasonInputs ==
  [fn : {"getSeasonForLocation"}, latitude : SeasonLatitudes, month : Months]

\* fetchNDVITrends over the last two months, in every wall-clock month
TrendInputs ==
  [fn : {"fetchNDVITrends"}, latitude : SeasonLatitudes, longitude : {200000},
   month : Months, months : {2}, answers : [0 .. 2 -> ProviderAnswers]]

\* Histories of up to MaxHistory points, and no history at all
HistoryValues == {0, 400, 500, 900}
Histories ==
  {Null}
    \cup {[array |-> h] :
            h \in UNION {[1 .. n -> [ndvi : HistoryValues]] :
                           n \in 0 .. MaxHistory}}

\* Current values below, among, between and above the historical ones
CurrentValues == {0, 300, 500, 900, 1000}

HistoryInputs ==
  [fn : {"compareWithHistorical"}, current : CurrentValues,
   history : Histories, blockEnd : BlockEnds, month : {1}]

PlantInputs ==
  [fn : {"getPlantInformation"}, latitude : ClassifyLatitudes,
   season : SeasonArguments, month : {1}]

FnInputs ==
  FetchInputs \cup ClassifyInputs \cup StatusInputs \cup SeasonInputs
    \cup TrendInputs \cup PlantInputs \cup HistoryInputs

InitFn ==
  /\ input \in FnInputs
  /\ output = Null
  /\ now = 0
  /\ month = input.month
  /\ storageOk = TRUE
  /\ storage = Null
  /\ cache = emptyMap
  /\ requestQueue = emptyMap
  /\ isInitialized = FALSE
  /\ cleanupTimers = 0
  /\ refreshInterval = FALSE
  /\ refreshQueue = {}
  /\ nextCall = 0
  /\ call = [c \in Calls |-> idleCall]
  /\ comp = [c \in Calls |-> idleComp]
  /\ batch = idleBatch
  /\ fetchCount = 0
  /\ ticks = 0
  /\ refreshRun = idleRun
  /\ isRefreshing = FALSE
  /\ REGIONAL_FLOWER_MAPPINGS = initialFlowerMappings

\* await fetchNDVIData(latitude, longitude)
ApplyFetchNDVIData ==
  /\ input.fn = "fetchNDVIData"
  /\ output = Null
  /\ output' = [fn |-> "fetchNDVIData",
                value |-> fetchNDVIData(input.latitude, input.longitude,
                                        input.month, input.answer, 1)]
  /\ UNCHANGED <<now, month, storageOk, storage, cache, requestQueue,
                 isInitialized, cleanupTimers, refreshInterval, refreshQueue,
                 nextCall, call, comp, batch, fetchCount, ticks, input, REGIONAL_FLOWER_MAPPINGS, isRefreshing, refreshRun>>

\* classifyBloomIntensity(ndvi, season, latitude)
ApplyClassifyBloomIntensity ==
  /\ input.fn = "classifyBloomIntensity"
  /\ output = Null
  /\ output' = [fn |-> "classifyBloomIntensity",
                value |-> classifyBloomIntensity(input.ndvi, input.season,
                                                 input.latitude)]
  /\ UNCHANGED <<now, month, storageOk, storage, cache, requestQueue,
                 isInitialized, cleanupTimers, refreshInterval, refreshQueue,
                 nextCall, call, comp, batch, fetchCount, ticks, input, REGIONAL_FLOWER_MAPPINGS, isRefreshing, refreshRun>>

\* The arguments fetchBloomData passes to getBloomStatus for an observation
\* of the given ndvi and season
statusOf(ndvi, in) ==
  LET ndviData == [mockNDVIFetch(in.latitude, 200000, in.month, 0, 900, 1)
                     EXCEPT !.ndvi = ndvi, !.season = in.season]
      plantInfo == IF in.plant
                   THEN getPlantInformation(in.latitude, in.season) ELSE Null
      phenologyMetrics ==
        IF in.phenology
        THEN getPhenologyMetrics(in.latitude, ndvi, in.season, in.month)
        ELSE Null
  IN getBloomStatus(ndviData, phenologyMetrics, plantInfo)

\* getBloomStatus(ndviData, phenologyMetrics, plantInfo)
ApplyGetBloomStatus ==
  /\ input.fn = "getBloomStatus"
  /\ output = Null
  /\ output' = [fn |-> "getBloomStatus", value |-> statusOf(input.ndvi, input)]
  /\ UNCHANGED <<now, month, storageOk, storage, cache, requestQueue,
                 isInitialized, cleanupTimers, refreshInterval, refreshQueue,
                 nextCall, call, comp, batch, fetchCount, ticks, input, REGIONAL_FLOWER_MAPPINGS, isRefreshing, refreshRun>>

\* getSeasonForLocation(lat, lon) in the month of the input
ApplyGetSeasonForLocation ==
  /\ input.fn = "getSeasonForLocation"
  /\ output = Null
  /\ output' = [fn |-> "getSeasonForLocation",
                value |-> getSeasonForLocation(input.latitude, input.month)]
  /\ UNCHANGED <<now, month, storageOk, storage, cache, requestQueue,
                 isInitialized, cleanupTimers, refreshInterval, refreshQueue,
                 nextCall, call, comp, batch, fetchCount, ticks, input, REGIONAL_FLOWER_MAPPINGS, isRefreshing, refreshRun>>

\* await fetchNDVITrends(latitude, longitude, months)
ApplyFetchNDVITrends ==
  /\ input.fn = "fetchNDVITrends"
  /\ output = Null
  /\ output' = [fn |-> "fetchNDVITrends",
                value |-> fetchNDVITrends(input.latitude, input.longitude,
                                          input.months, input.month,
                                          input.answers)]
  /\ UNCHANGED <<now, month, storageOk, storage, cache, requestQueue,
                 isInitialized, cleanupTimers, refreshInterval, refreshQueue,
                 nextCall, call, comp, batch, fetchCount, ticks, input, REGIONAL_FLOWER_MAPPINGS, isRefreshing, refreshRun>>

\* getPlantInformation(latitude, longitude, season), with the list
\* getCurrentFloweringPlants gave it
ApplyGetPlantInformation ==
  /\ input.fn = "getPlantInformation"
  /\ output = Null
  /\ output' = [fn |-> "getPlantInformation",
                plants |-> getCurrentFloweringPlants(input.latitude,
                                                     input.season),
                value |-> getPlantInformation(input.latitude, input.season)]
  /\ UNCHANGED <<now, month, storageOk, storage, cache, requestQueue,
                 isInitialized, cleanupTimers, refreshInterval, refreshQueue,
                 nextCall, call, comp, batch, fetchCount, ticks, input, REGIONAL_FLOWER_MAPPINGS, isRefreshing, refreshRun>>

\* compareWithHistorical(currentData, trends)
ApplyCompareWithHistorical ==
  /\ input.fn = "compareWithHistorical"
  /\ output = Null
  /\ output' = [fn |-> "compareWithHistorical",
                value |-> compareWithHistorical([ndvi |-> input.current],
                                                input.history,
                                                input.blockEnd)]
  /\ UNCHANGED <<now, month, storageOk, storage, cache, requestQueue,
                 isInitialized, cleanupTimers, refreshInterval, refreshQueue,
                 nextCall, call, comp, batch, fetchCount, ticks, input, REGIONAL_FLOWER_MAPPINGS, isRefreshing, refreshRun>>

NextFn ==
  \/ ApplyCompareWithHistorical
  \/ ApplyGetPlantInformation
  \/ ApplyFetchNDVITrends
  \/ ApplyFetchNDVIData
  \/ ApplyClassifyBloomIntensity
  \/ ApplyGetBloomStatus
  \/ ApplyGetSeasonForLocation

SpecFn == InitFn /\ [][NextFn]_vars

(***************************************************************************)
(* Properties of getBloomData                                              *)
(***************************************************************************)
sameRoundedKey(i, j) ==
  generateKey(call[i].latitude, call[i].longitude, "LOCATIONS")
    = generateKey(call[j].latitude, call[j].longitude, "LOCATIONS")

\* The same result value, or the same error
sameOutcome(a, b) ==
  /\ a.status = b.status
  /\ IF a.status = "fulfilled" THEN a.value = b.value
     ELSE a.reason.message = b.reason.message

\* C1 (as the claim states it): of two getBloomData calls whose coordinates
\* round to the same value at 3 decimals, the second reaching requestQueue
\* (it was not answered by the LOCATIONS cache) while the computation of the
\* first is in flight, the second starts no computation of its own, so that
\* no second provider fetch is issued, and both receive the same result
\* value or the same error.
C1_SameRoundedKeySharesComputation ==
  \A i, j \in Calls :
    (/\ i # j
     /\ call[i].pc = "done" /\ call[j].pc = "done"
     /\ sameRoundedKey(i, j)
     /\ call[j].promise # 0
     /\ i \in call[j].inFlightAtLookup)
    => /\ comp[j].phase = "none"
       /\ call[j].promise = i
       /\ sameOutcome(call[i].outcome, call[j].outcome)

awaiting == {c \in Calls : call[c].pc \in {"own", "shared"}}

\* C2: a requestQueue entry always belongs to a computation whose creator
\* has not returned yet, under the creator's own key; when no getBloomData
\* call awaits a computation the queue is empty, whether the computations
\* fulfilled or rejected, so a later call for the key starts a new one.
C2_QueueHoldsOnlyInFlight ==
  /\ \A k \in DOMAIN requestQueue :
       /\ call[requestQueue[k]].pc = "own"
       /\ k = requestKey(call[requestQueue[k]].latitude,
                         call[requestQueue[k]].longitude)
  /\ awaiting = {} => requestQueue = emptyMap

\* C2 witness: a computation rejected and its creator returned; a later call
\* with the same key started a computation of its own and returned; nothing
\* is awaited and the queue is empty.
C2_Witness ==
  \E i, j \in Calls :
    /\ i < j
    /\ call[i].pc = "done" /\ call[i].promise = i
    /\ call[i].outcome.status = "rejected"
    /\ call[j].pc = "done" /\ call[j].promise = j
    /\ requestKey(call[i].latitude, call[i].longitude)
         = requestKey(call[j].latitude, call[j].longitude)
    /\ awaiting = {}
    /\ requestQueue = emptyMap

\* The step in which call c passes from initialize() to the cache and queue
\* lookups
looksUp(c) == call[c].pc = "init" /\ call'[c].pc # "init"

locationKey(c) == generateKey(call[c].latitude, call[c].longitude, "LOCATIONS")

\* The LOCATIONS entry of call c's rounded coordinates is present and younger
\* than 90 days
hasFreshLocation(c) ==
  /\ locationKey(c) \in DOMAIN cache
  /\ now - cache[locationKey(c)].timestamp < 90

\* C3: a getBloomData with forceRefresh=false that finds an unexpired
\* LOCATIONS entry for its rounded coordinates returns that entry's data,
\* issues no provider fetch, starts no computation and adds nothing to
\* requestQueue.
C3_CacheHitReturnsEntry ==
  [][\A c \in Calls :
       (looksUp(c) /\ ~call[c].forceRefresh /\ hasFreshLocation(c))
       => /\ call'[c].pc = "done"
          /\ call'[c].outcome = fulfilled(cache[locationKey(c)].data)
          /\ fetchCount' = fetchCount
          /\ comp' = comp
          /\ requestQueue' = requestQueue]_vars

\* C3 witness: a week after the entry was written, a call without
\* forceRefresh has returned the entry's data and started no computation.
C3_Witness ==
  \E c \in Calls :
    /\ call[c].pc = "done" /\ ~call[c].forceRefresh
    /\ call[c].promise = 0 /\ comp[c].phase = "none"
    /\ locationKey(c) \in DOMAIN cache
    /\ now - cache[locationKey(c)].timestamp >= 7
    /\ call[c].outcome = fulfilled(cache[locationKey(c)].data)

\* The step in which the creator c of a computation returns its result
returnsFresh(c) ==
  /\ call[c].pc = "own" /\ call'[c].pc = "done"
  /\ call'[c].outcome.status = "fulfilled"

\* C4: when a getBloomData that computed its answer returns it, the
\* LOCATIONS entry of the rounded coordinates holds exactly that answer,
\* written at that moment, hence unexpired.
C4_WriteThrough ==
  [][\A c \in Calls :
       returnsFresh(c)
       => /\ locationKey(c) \in DOMAIN cache'
          /\ cache'[locationKey(c)].data = call'[c].outcome.value
          /\ cache'[locationKey(c)].timestamp = now'
          /\ cache'[locationKey(c)].dataType = "LOCATIONS"]_vars

\* C4 witness: a call computed its answer, and a following call without
\* forceRefresh for the same rounded coordinates returned the same data from
\* the cache, with no provider fetch in between.
C4_Witness ==
  \E i, j \in Calls :
    /\ i < j /\ sameRoundedKey(i, j)
    /\ call[i].pc = "done" /\ call[i].promise = i
    /\ call[i].outcome.status = "fulfilled"
    /\ call[j].pc = "done" /\ ~call[j].forceRefresh /\ call[j].promise = 0
    /\ call[j].outcome = call[i].outcome
    /\ call[j].fetchesAtStart = fetchCount

(***************************************************************************)
(* Properties of the cache lifetimes                                       *)
(***************************************************************************)
ndviKey(p) == generateKey(comp'[p].latitude, comp'[p].longitude, "NDVI")

\* The step in which computation p passes from the observation to the
\* plants, the phenology, the classification and the IMAGES lookup
classifies(p) == comp[p].phase = "classify" /\ comp'[p].phase # "classify"

imagesKey(p) ==
  imageKey(comp[p].latitude, comp[p].longitude, comp[p].ndviData.season)

\* Entry k is present and at least d days have passed since it was written
expiredBy(k, d) == k \in DOMAIN cache /\ now - cache[k].timestamp >= d

\* Entry k is present, younger than d days, and holds data
freshBy(k, d, data) ==
  /\ k \in DOMAIN cache
  /\ now - cache[k].timestamp < d
  /\ cache[k].data = data

C6_BatchSlots ==
  batch.pc = "done"
  => /\ batch.outcome.status = "fulfilled"
     /\ Len(batch.outcome.value) = Len(batch.locations)
     /\ \A i \in 1 .. Len(batch.locations) :
          LET slot == batch.outcome.value[i]
              point == call[batch.first + i - 1]
          IN /\ slot.location = batch.locations[i]
             /\ \/ slot.data # Null /\ slot.error = Null
                \/ slot.data = Null /\ slot.error # Null
             /\ slot.data # Null
                => /\ point.outcome.status = "fulfilled"
                   /\ slot.data = point.outcome.value
             /\ slot.error # Null
                => /\ point.outcome.status = "rejected"
                   /\ slot.error = point.outcome.reason
             /\ ~regionalImagesThrow(batch.locations[i].latitude,
                                     batch.locations[i].longitude)
                => slot.data # Null

\* C6 witness: a batch of two points has resolved, one slot carrying an
\* error, the other carrying data.
C6_Witness ==
  /\ batch.pc = "done"
  /\ batch.outcome.status = "fulfilled"
  /\ \E i, j \in 1 .. Len(batch.locations) :
       /\ batch.outcome.value[i].error # Null
       /\ batch.outcome.value[i].data = Null
       /\ batch.outcome.value[j].data # Null
       /\ batch.outcome.value[j].error = Null

(***************************************************************************)
(* Properties of the degraded modes                                        *)
(***************************************************************************)
validLocation(c) ==
  /\ Abs(call[c].latitude) <= 900000
  /\ Abs(call[c].longitude) <= 1800000

\* C7 (as the claim states it): a getBloomData called with its default
\* options for a latitude in [-90, 90] and a longitude in [-180, 180]
\* resolves with a result object; it does not reject.
C7_DefaultCallResolves ==
  \A c \in Calls :
    (/\ call[c].pc = "done"
     /\ validLocation(c)
     /\ call[c].includeImages /\ ~call[c].forceRefresh)
    => call[c].outcome.status = "fulfilled"

\* C8: fetchNDVIData returns an observation whatever the provider does; when
\* the fetch fails the observation has source 'Fallback', confidence 0.6,
\* below the 0.85 a MODIS observation has at least, and an ndvi between 0.1
\* and 0.9, for every latitude and every month.
C8_FallbackObservation ==
  (output # Null /\ output.fn = "fetchNDVIData")
  => LET o == output.value
     IN /\ o.latitude = input.latitude
        /\ IF input.answer.ok
           THEN o.source = "MODIS" /\ o.confidence >= 850
           ELSE /\ o.source = "Fallback"
                /\ o.confidence = 600 /\ o.confidence < 850
                /\ 100 <= o.ndvi /\ o.ndvi <= 900

\* C8 witness: the fetch failed for a southern latitude in July and the
\* fallback observation was returned.
C8_Witness ==
  /\ output # Null
  /\ output.fn = "fetchNDVIData"
  /\ ~input.answer.ok
  /\ input.latitude < 0 /\ input.month = 7
  /\ output.value.source = "Fallback"
  /\ output.value.season = "Winter"

\* C9 (as the claim states it): the result of a getBloomData called with
\* forceRefresh=true that starts its own computation rests on a provider
\* fetch issued during that call, whatever the cache holds.
C9_ForceRefreshFetches ==
  \A c \in Calls :
    (/\ call[c].pc = "done" /\ call[c].forceRefresh
     /\ call[c].promise = c
     /\ call[c].outcome.status = "fulfilled")
    => call[c].outcome.value.ndvi.fetchId > call[c].fetchesAtStart

\* The result fetchBloomData composes for call c from observation ndviData
\* when nothing is cached
uncachedResult(c, ndviData) ==
  LET r == composeResult(call[c].latitude, call[c].longitude, ndviData,
             getPlantInformation(call[c].latitude, ndviData.season),
             getPhenologyMetrics(call[c].latitude, ndviData.ndvi,
                                 ndviData.season, month))
  IN IF call[c].includeImages THEN withImages(r, getRegionalFlowerImages)
     ELSE r

\* C10: when localStorage throws on every read and write, the stored item
\* is never read or written, no getBloomData fails with an exception of the
\* cache layer, every answer rests on an observation obtained in this
\* session, and a call that computes its answer returns what it would
\* compose with nothing cached.
C10_StorageFailureHarmless ==
  ~storageOk
  => /\ storage = storedCache
     /\ \A c \in Calls :
          call[c].pc = "done"
          => /\ call[c].outcome.status = "rejected"
                => /\ call[c].outcome.reason.message # <<"storage">>
                   /\ regionalImagesThrow(call[c].latitude, call[c].longitude)
             /\ call[c].outcome.status = "fulfilled"
                => call[c].outcome.value.ndvi.fetchId >= 1
             /\ (/\ call[c].outcome.status = "fulfilled"
                 /\ call[c].promise = c /\ ticks = 0)
                => call[c].outcome.value
                     = uncachedResult(c, comp[c].ndviData)

\* C10 witness: with localStorage throwing, a call that found the LOCATIONS
\* key of the stored item absent has computed and returned its answer.
C10_Witness ==
  /\ ~storageOk
  /\ \E c \in Calls :
       /\ call[c].pc = "done" /\ ~call[c].forceRefresh
       /\ call[c].promise = c
       /\ call[c].outcome.status = "fulfilled"
       /\ locationKey(c) \in DOMAIN storage
       /\ call[c].outcome.value # storage[locationKey(c)].data

(***************************************************************************)
(* getBloomData for coordinates outside the globe                          *)
(***************************************************************************)
\* Longitude 200: no region box matches and |latitude| < 23.5, so the image
\* region is 'tropical'
LocD == [latitude |-> 100000, longitude |-> 2000000]

\* Latitude 95
LocE == [latitude |-> 950000, longitude |-> 200000]

InvalidRequests ==
  {[location |-> LocD, options |-> defaultOptions],
   [location |-> LocE,
    options |-> [forceRefresh |-> FALSE, includeImages |-> FALSE]]}

NextInvalid ==
  \/ \E r \in InvalidRequests :
        Start(r.location, r.options.forceRefresh, r.options.includeImages)
  \/ Computation

SpecInvalid == Init /\ [][NextInvalid]_vars

\* The cache keys written for the rounded coordinates of call c
keysOf(c) ==
  {k \in DOMAIN cache :
     /\ k[2] = roundedCoordinate(call[c].latitude)
     /\ k[3] = roundedCoordinate(call[c].longitude)}

\* C11 (as the claim states it): a getBloomData whose latitude or longitude
\* is out of range is rejected; no computation is started and no provider
\* fetch made for it, and no cache entry is written for its coordinates.
C11_InvalidLocationRejected ==
  \A c \in Calls :
    (call[c].pc = "done" /\ ~validLocation(c))
    => /\ call[c].outcome.status = "rejected"
       /\ comp[c].phase = "none"
       /\ keysOf(c) = {}

(***************************************************************************)
(* Properties of the functions                                             *)
(***************************************************************************)
credentialsAbsent(env) ==
  /\ NASA_CREDENTIALS(env).username = ""
  /\ NASA_CREDENTIALS(env).password = ""

\* C12 (as the claim states it): with the credentials of the real source
\* absent, every observation fetchNDVIData returns carries source
\* 'Fallback', never 'MODIS'.
C12_NoCredentialsMeansFallback ==
  (/\ output # Null
   /\ output.fn = "fetchNDVIData"
   /\ credentialsAbsent(input.env))
  => output.value.source = "Fallback"

classified == output # Null /\ output.fn = "classifyBloomIntensity"

levelRank(level) ==
  CASE level = "Dormant" -> 0
    [] level = "Low Bloom" -> 1
    [] level = "Active Bloom" -> 2
    [] level = "Peak Bloom" -> 3

\* C13: for a fixed season (one of the four, or an unknown one) and a fixed
\* latitude the adjusted thresholds satisfy low <= active <= peak, and no
\* greater ndvi is classified at a lower level than the ndvi classified.
C13_LevelMonotonic ==
  classified
  => LET t == adjustedThresholds(input.season, input.latitude)
     IN /\ t.low <= t.active /\ t.active <= t.peak
        /\ \A n \in NdviValues :
             n >= input.ndvi
             => levelRank(classifyBloomIntensity(n, input.season,
                                                 input.latitude).level)
                  >= levelRank(output.value.level)

\* C13 witness: Winter outside the tropics, where the thresholds lie closest
\* (0.55, 0.65, 0.70): ndvi 0.65 was classified Active Bloom.
C13_Witness ==
  /\ classified
  /\ input.season = "Winter" /\ input.latitude = 450000
  /\ input.ndvi = 650
  /\ output.value.level = "Active Bloom"

\* The seasonal deltas of the reference formula, in the order dormant, low,
\* active, peak
refDeltas(season) ==
  CASE season = "Spring" -> <<-100, -50, 0, 50>>
    [] season = "Summer" -> <<0, 0, 50, 100>>
    [] season = "Autumn" -> <<0, 0, 0, 0>>
    [] season = "Winter" -> <<100, 50, -50, -100>>

\* max(floor, base + seasonal delta + (0.10 if |latitude| < 23.5 else 0)),
\* in the order dormant, low, active, peak
refThresholds(season, latitude) ==
  LET bases == <<300, 500, 700, 800>>
      floors == <<100, 200, 300, 400>>
      tropical == IF latitude > -235000 /\ latitude < 235000 THEN 100 ELSE 0
  IN [i \in 1 .. 4 |->
        IF bases[i] + refDeltas(season)[i] + tropical >= floors[i]
        THEN bases[i] + refDeltas(season)[i] + tropical
        ELSE floors[i]]

refLevel(ndvi, season, latitude) ==
  LET t == refThresholds(season, latitude)
  IN IF ndvi >= t[4] THEN "Peak Bloom"
     ELSE IF ndvi >= t[3] THEN "Active Bloom"
     ELSE IF ndvi >= t[2] THEN "Low Bloom"
     ELSE "Dormant"

summerTropicalCase ==
  /\ classified
  /\ input.ndvi = 850 /\ input.season = "Summer" /\ input.latitude = 100000

\* C15 (as the claim states it): classifyBloomIntensity(0.85, 'Summer', 10)
\* returns level Peak Bloom.
C15_SummerTropicalIsPeak ==
  summerTropicalCase => output.value.level = "Peak Bloom"

\* C15 (amended): classifyBloomIntensity(0.85, 'Summer', 10) returns level
\* Active Bloom: the peak threshold is 0.80 + 0.10 + 0.10 = 1.00, the active
\* threshold 0.70 + 0.05 + 0.10 = 0.85, which 0.85 meets.
C15_SummerTropicalIsActive ==
  summerTropicalCase
  => /\ output.value.level = "Active Bloom"
     /\ adjustedThresholds(input.season, input.latitude).peak = 1000
     /\ adjustedThresholds(input.season, input.latitude).active = 850

\* C15 witness: the call of the claim has returned.
C15_Witness ==
  /\ summerTropicalCase
  /\ output.value.level = "Active Bloom"
  /\ output.value.confidence = 100

\* round(100 * max(0.6, 1 - 2 * |ndvi - t|))
refConfidence(ndvi, t) ==
  LET distance == IF ndvi >= t THEN ndvi - t ELSE t - ndvi
      c == IF 1000 - 2 * distance >= 600 THEN 1000 - 2 * distance ELSE 600
  IN (c + 5) \div 10

\* The adjusted threshold of a level
thresholdOfLevel(level, season, latitude) ==
  LET t == adjustedThresholds(season, latitude)
  IN CASE level = "Peak Bloom" -> t.peak
       [] level = "Active Bloom" -> t.active
       [] level = "Low Bloom" -> t.low
       [] level = "Dormant" -> t.dormant

\* C16 (as the claim states it): the confidence of every classification is
\* round(100 * max(0.6, 1 - 2 * |ndvi - t|)) for the adjusted threshold t of
\* the level returned, the dormant threshold for a Dormant result, and is
\* an integer from 60 to 100.
C16_ConfidenceFromLevelThreshold ==
  classified
  => /\ output.value.confidence
          = refConfidence(input.ndvi,
                          thresholdOfLevel(output.value.level, input.season,
                                           input.latitude))
     /\ output.value.confidence \in 60 .. 100

scored == output # Null /\ output.fn = "getBloomStatus"

\* The contribution of the primary species of the region and season
primaryContribution(latitude, season) ==
  getCurrentFloweringPlants(latitude, season)[1].ndviBoost

\* clamp(0, 100, round(60 * ndvi + 20 * contribution + 20 * phenologyIndex))
\* with phenologyIndex = min(1, ndvi + contribution), a missing term being 0
refBloomScore(ndvi, contribution, plantPresent, phenologyPresent) ==
  LET phenologyIndex == IF ndvi + contribution <= 1000
                        THEN ndvi + contribution ELSE 1000
      raw == 60 * ndvi
             + (IF plantPresent THEN 20 * contribution ELSE 0)
             + (IF phenologyPresent THEN 20 * phenologyIndex ELSE 0)
      rounded == (raw + 500) \div 1000
  IN IF rounded < 0 THEN 0 ELSE IF rounded > 100 THEN 100 ELSE rounded

C18_FallbackResultIsLimited ==
  \A c \in Calls :
    (/\ call[c].pc = "done"
     /\ call[c].outcome.status = "fulfilled"
     /\ call[c].outcome.value.ndvi.source = "Fallback")
    => /\ call[c].outcome.value.dataQuality.level = "Limited"
       /\ call[c].outcome.value.dataQuality.score < 40

seasoned == output # Null /\ output.fn = "getSeasonForLocation"

\* C19 (as the claim states it): at latitude 0, in every month,
\* getSeasonForLocation, getSeasonalNDVI and the start, peak and end labels
\* of the season give what they give at a small positive latitude (0.0001
\* degrees north).
C19_EquatorIsNorthern ==
  (seasoned /\ input.latitude = 0)
  => LET north == getSeasonForLocation(1, input.month)
     IN /\ output.value = north
        /\ getSeasonalNDVI(output.value, 0)
             = getSeasonalNDVI(north, 1)
        /\ \A s \in Seasons :
             /\ calculateStartOfSeason(s, 0)
                  = calculateStartOfSeason(s, 1)
             /\ calculatePeakBloom(s, 0, 500).period
                  = calculatePeakBloom(s, 1, 500).period
             /\ calculateEndOfSeason(s, 0)
                  = calculateEndOfSeason(s, 1)

\* The month k months after m, and the month before m
monthAfter(m, k) == ((m + k - 1) % 12) + 1
monthBefore(m) == monthAfter(m, 11)

\* The position of month m in the run of months of its season
positionInSeason(lat, m) ==
  LET name(x) == getSeasonForLocation(lat, x).name
  IN IF name(monthBefore(m)) # name(m) THEN 1
     ELSE IF name(monthBefore(monthBefore(m))) # name(m) THEN 2
     ELSE 3

\* C20: in every month the season is one of Spring, Summer, Autumn, Winter
\* and the phase one of Early, Mid, Late; a southern latitude has the season
\* a northern one has six months later; and the phase is Early, Mid, Late
\* for the first, second, third month of the season's three months.
C20_SeasonTables ==
  seasoned
  => /\ output.value.name \in Seasons
     /\ output.value.phase \in {"Early", "Mid", "Late"}
     /\ input.latitude < 0
        => output.value.name
             = getSeasonForLocation(-input.latitude,
                                    monthAfter(input.month, 6)).name
     /\ output.value.phase
          = <<"Early", "Mid", "Late">>[positionInSeason(input.latitude,
                                                        input.month)]
     /\ \A k \in 0 .. 2 :
          getSeasonForLocation(
              input.latitude,
              monthAfter(input.month,
                         k + 1 - positionInSeason(input.latitude,
                                                  input.month) + 12)).name
            = output.value.name

\* C20 witness: a southern latitude in December, the first month of its
\* Summer, which the north has in June.
C20_Witness ==
  /\ seasoned
  /\ input.latitude = -450000 /\ input.month = 12
  /\ output.value = [name |-> "Summer", phase |-> "Early"]
  /\ getSeasonForLocation(450000, 6).name = "Summer"

\* C21 (as the claim states it): every point fetchNDVITrends returns carries
\* the season of the month the point is for, so that the season of an
\* observation depends on the latitude and the requested date only.
C21_SeasonOfRequestedDate ==
  (output # Null /\ output.fn = "fetchNDVITrends")
  => \A k \in DOMAIN output.value :
       output.value[k].season
         = getSeasonForLocation(input.latitude, output.value[k].date).name

planted == output # Null /\ output.fn = "getPlantInformation"

\* The catalog list the claim names for a latitude and a season argument
catalogList(latitude, season) ==
  IF -235000 < latitude /\ latitude < 235000
  THEN REGIONAL_PLANTS.tropical.year_round
  ELSE LET region == IF latitude > 0 THEN REGIONAL_PLANTS.north_temperate
                     ELSE REGIONAL_PLANTS.south_temperate
       IN CASE season = "Spring" -> region.spring
            [] season = "Summer" -> region.summer
            [] season = "Autumn" -> region.autumn
            [] season = "Winter" -> region.winter
            [] OTHER -> <<>>

\* C22: getCurrentFloweringPlants returns the tropical year-round list for
\* |latitude| < 23.5 whatever the season, otherwise the list of the
\* hemisphere's temperate region and the season, in catalog order;
\* getPlantInformation names the first entry as primary species and the
\* second and third as additional species, and answers an empty list with
\* 'Mixed Vegetation', 'Local vegetation in seasonal transition' and 'Low'.
C22_PlantSelection ==
  planted
  => LET list == catalogList(input.latitude, input.season)
     IN /\ output.plants = list
        /\ IF list = <<>>
           THEN /\ output.value.primarySpecies = "Mixed Vegetation"
                /\ output.value.description
                     = <<"Local vegetation in seasonal transition">>
                /\ output.value.bloomIntensity = "Low"
           ELSE /\ output.value.primarySpecies = list[1].name
                /\ Len(output.value.additionalSpecies) <= 2
                /\ Len(output.value.additionalSpecies)
                     = (IF Len(list) >= 3 THEN 2 ELSE Len(list) - 1)
                /\ \A i \in DOMAIN output.value.additionalSpecies :
                     output.value.additionalSpecies[i] = list[i + 1].name

\* C22 witness: a northern temperate Spring, with Cherry Blossom first.
C22_Witness ==
  /\ planted
  /\ input.latitude = 450000 /\ input.season = "Spring"
  /\ output.value.primarySpecies = "Cherry Blossom"
  /\ output.value.additionalSpecies = <<"Magnolia", "Tulip">>

\* C22 witness of the empty list: an unknown season outside the tropics.
C22_WitnessEmpty ==
  /\ planted
  /\ input.latitude = 235000 /\ input.season = "Monsoon"
  /\ output.plants = <<>>
  /\ output.value.primarySpecies = "Mixed Vegetation"

compared == output # Null /\ output.fn = "compareWithHistorical"

Trends == {"Increasing", "Decreasing", "Stable", "Unknown"}

ranked ==
  /\ compared
  /\ input.history # Null /\ input.history # [array |-> <<>>]
  /\ output.value # Undefined

\* C24 (as the claim states it): for a non-empty history the percentile is
\* an integer from 0 to 100 and no smaller current value gets a greater
\* percentile; a current value above every historical value gets the
\* highest.
C24_PercentileRank ==
  ranked
  => /\ output.value.percentile \in 0 .. 100
     /\ \A c \in CurrentValues :
          c <= input.current
          => compareWithHistorical([ndvi |-> c], input.history,
                                   input.blockEnd).percentile
               <= output.value.percentile

\* The documented range of the baseline index of a season
documentedRange(season) ==
  CASE season = "Winter" -> 200 .. 300
    [] season = "Spring" -> 400 .. 600
    [] season = "Summer" -> 600 .. 800
    [] season = "Autumn" -> 500 .. 700

\* C25 (as the claim states it): in every month and both hemispheres the
\* baseline index getSeasonalNDVI gives for the season of the location lies
\* in the season's documented range.
C25_BaselineInDocumentedRange ==
  seasoned
  => getSeasonalNDVI(output.value, input.latitude)
       \in documentedRange(output.value.name)

\* C26 (as the claim states it): for every service call that succeeded, the
\* intensity the map component records for the location is the level
\* classifyBloomIntensity computed for the observation's ndvi, season and
\* latitude.
C26_MapShowsClassifiedLevel ==
  \A c \in Calls :
    (/\ call[c].pc = "done"
     /\ call[c].outcome.status = "fulfilled")
    => LET o == call[c].outcome.value.ndvi
       IN clickedIntensity(wrappedBloomData(call[c].latitude,
                                            call[c].longitude, month,
                                            call[c].outcome))
            = classifyBloomIntensity(o.ndvi, o.season, o.latitude).level

\* C27 (as the claim states it): whatever calls have been made,
\* REGIONAL_FLOWER_MAPPINGS holds its initial entries in their initial
\* order.
C27_TablesReadOnly == REGIONAL_FLOWER_MAPPINGS = initialFlowerMappings

\* C28 (as the claim states it): a key leaves the refresh queue only when
\* its refresh was attempted in the current processRefreshQueue run, so that
\* a location scheduled during a run is refreshed by it or still queued when
\* it finishes; and outside a run no refresh promise is pending.
C28_QueuedUntilRefreshed ==
  [][/\ \A k \in refreshQueue :
          k \notin refreshQueue' => k \in refreshRun.attempted
     /\ ~isRefreshing' => refreshRun'.pending = {}]_vars

\* ---------------------------------------------------------------------------
\* C29: service initialisation happens at most once: whatever calls of
\* initialize, getBloomData and getBatchBloomData are made, also calls that
\* start before the first initialisation has finished, initializeDataCache
\* runs at most once, so there is at most one hourly cache-cleanup timer
\* (and at most one background-refresh timer, which refreshInterval, a single
\* handle tested before it is set, guarantees).
C29_InitialisedOnce == cleanupTimers <= 1

\* ---------------------------------------------------------------------------
\* C30: after a successful fetchBloomData for a location, the PHENOLOGY cache
\* entry of that location, while it is within its TTL, holds both the plant
\* information and the phenology metrics (so that a second fetchBloomData for
\* the location takes both from the cache and recomputes neither).
C30_PhenologyEntryHoldsBoth ==
  \A p \in Calls :
    comp[p].phase = "fulfilled" =>
      LET cached == cacheGetData(cache,
                                 generateKey(comp[p].latitude,
                                             comp[p].longitude, "PHENOLOGY"),
                                 "PHENOLOGY", now)
      IN cached # Null =>
           has(cached, "plantInfo") /\ has(cached, "phenologyMetrics")

====
